---- MODULE Spec2Model ----
(***************************************************************************)
(* Turn management of the Clarity backend: one duplex channel              *)
(* (app.py, websocket_endpoint) bound to one session, which is either a    *)
(* jury session (services/autogen_service.py, ConversationSession) or a    *)
(* conversation-mode session (services/conversation_service.py,            *)
(* ConversationSession).  app.create_session puts a session of mode        *)
(* "presentation-jury-mode" in the AutogenService store and every other   *)
(* session in the ConversationService store; "/reset" removes ids from     *)
(* both stores, and the channel looks its id up at every user message.     *)
(*                                                                         *)
(* A text is a tuple of one-character strings, so that strip() and lower() *)
(* are computed.  The handler coroutine is cut at its suspension points:   *)
(* the awaited model calls, the group-chat stream and the pacing sleeps.   *)
(***************************************************************************)
EXTENDS Integers, Sequences, FiniteSets, TLC

VARIABLES
    mode,              \* the mode the session was created with
    environment_type,  \* the environment type the session was created with
    user_name,         \* the sender label the client puts in its messages
    jury,              \* fields of the jury session
    conv,              \* fields of the conversation-mode session
    pc,                \* where the channel's handler coroutine is suspended
    user_message,      \* the handler's local: text of the message in hand
    turn,              \* locals of the conversation-mode turn
    sent,              \* what the channel has sent since the last inbound message
    calls,             \* the model calls made since the last inbound message
    pre,               \* the session as it was when the message in hand arrived
                       \* (Absent when no store held the id)
    received,          \* user messages received so far
    faults,            \* model calls so far that raised or returned no message
    streamed,          \* items the group chat has streamed in this turn
    response,          \* the streamed item the loop body handled last, with
                       \* the line it printed (kept by StreamYieldsKept only)
    autogen_sessions,       \* ids in autogen_service.sessions
    conversation_sessions,  \* ids in conversation_service.sessions
    others,            \* what each store holds under the other session's id
    request,           \* the last "/reset" or create_session request made
    connected,         \* the channel's receive loop is running
    channels           \* the handlers of the channels bound to one shared
                       \* session id: where each is suspended, its locals

\* the two session stores: their keys, and the session of the other id
stores == <<autogen_sessions, conversation_sessions, others>>

vars == <<mode, environment_type, user_name, jury, conv, pc, user_message,
          turn, sent, calls, pre, received, faults, streamed, response,
          autogen_sessions, conversation_sessions, others, request,
          connected, channels>>

-----------------------------------------------------------------------------
(* Bounds of the model *)

\* user messages sent on the channel of a jury session
MaxMessages == 6
\* model calls of a run that raise or return no message
MaxFaults == 2
\* user messages sent on the channel of a conversation-mode session
MaxConvMessages == 3
\* items the group chat streams in one turn
MaxStream == 3
\* user messages sent in the run that reaches the turn limit
MaxTurnMessages == 21
\* user messages sent to a conversation-mode session while sessions are reset
MaxChannelTurns == 2
\* user messages sent on the channel while sessions are created and reset
MaxStoreMessages == 2
\* channels opened with the same session id
MaxChannels == 2
\* user messages sent to a jury session over the channels that share it
MaxSharedMessages == 6
\* user messages sent to a conversation-mode session over the channels that
\* share it
MaxSharedTurns == 22

-----------------------------------------------------------------------------
(* Program constants *)

max_questions == 4
max_conversation_turns == 20
\* history entries above which a conversation turn takes 3 replies
HistoryThreshold == 5

None == "None"

JuryMode == "presentation-jury-mode"
EnvironmentMode == "environment"

-----------------------------------------------------------------------------
(* Texts *)

RECURSIVE LStrip(_)
LStrip(t) == IF t # <<>> /\ Head(t) = " " THEN LStrip(Tail(t)) ELSE t

RECURSIVE RStrip(_)
RStrip(t) ==
    IF t # <<>> /\ t[Len(t)] = " " THEN RStrip(SubSeq(t, 1, Len(t) - 1)) ELSE t

\* str.strip()
Strip(t) == RStrip(LStrip(t))

LowerChar(c) == CASE c = "H" -> "h" [] c = "I" -> "i" [] OTHER -> c

\* str.lower()
Lower(t) == [i \in 1..Len(t) |-> LowerChar(t[i])]

\* the texts a client sends to a jury session
UserMessages == {<<>>, <<" ">>, <<"h", "i">>}

\* the text a client sends to a conversation-mode session
Greeting == <<"h", "i">>

UserNames == {"User"}

-----------------------------------------------------------------------------
(* Persona catalog *)

get_presentation_jury_mode == <<"Sarah Chen", "Alex Thompson", "Marcus Rodriguez">>

\* variant: an unrecognized environment type gets the "office" personas
get_environment_mode_office_default(env_type) ==
    IF env_type = "school" THEN <<"Max", "Luna", "Jordan">>
    ELSE <<"David Kim", "Maria Garcia">>

get_environment_mode(env_type) ==
    IF env_type = "school" THEN <<"Max", "Luna", "Jordan">>
    ELSE IF env_type = "office" THEN <<"David Kim", "Maria Garcia">>
    ELSE <<"Max", "Luna", "Jordan">>

EnvironmentTypes == {"school", "office", "cafe"}

\* template.name.replace(" ", "_").replace("-", "_").lower()
ValidName(name) ==
    CASE name = "Sarah Chen" -> "sarah_chen"
      [] name = "Alex Thompson" -> "alex_thompson"
      [] name = "Marcus Rodriguez" -> "marcus_rodriguez"
      [] name = "Max" -> "max"
      [] name = "Luna" -> "luna"
      [] name = "Jordan" -> "jordan"
      [] name = "David Kim" -> "david_kim"
      [] name = "Maria Garcia" -> "maria_garcia"
      [] OTHER -> name

\* the templates setup_agents stores, in registration order
agent_templates ==
    IF mode = JuryMode THEN get_presentation_jury_mode
    ELSE get_environment_mode(environment_type)

\* len(self.agents): setup_agents creates one agent per template
persona_count == Len(agent_templates)

\* self.agent_templates[i].name, i counted from 0 as in the source
TemplateName(i) == agent_templates[i + 1]

\* the keys of agent_name_mapping
AgentKeys == {ValidName(agent_templates[k]) : k \in 1..Len(agent_templates)}

\* agent_name_mapping.get(key, key)
DisplayName(key) ==
    IF \E k \in 1..Len(agent_templates) : ValidName(agent_templates[k]) = key
    THEN agent_templates[CHOOSE k \in 1..Len(agent_templates) :
                            ValidName(agent_templates[k]) = key]
    ELSE key

\* the loop "for i, template in enumerate(self.agent_templates)": the index of
\* the first template of that name, -1 when the loop ends without a break
FindTemplate(name) ==
    IF \E i \in 0..(persona_count - 1) : TemplateName(i) = name
    THEN CHOOSE i \in 0..(persona_count - 1) :
            /\ TemplateName(i) = name
            /\ \A j \in 0..(i - 1) : TemplateName(j) # name
    ELSE -1

-----------------------------------------------------------------------------
(* Messages *)

\* the exceptions a model call raises
Errors == {"RateLimitError", "AuthenticationError", "Exception"}

\* what the model answers to each task; its wording is the model's own
ThankYouText == <<"t">>
QuestionText == <<"q">>
FinalText == <<"c">>
\* the hardcoded closing line
FallbackText == <<"f">>

HistoryEntry(speaker, message, type) ==
    [speaker |-> speaker, message |-> message, type |-> type]

MessageReceived == [type |-> "message_received"]
Pong == [type |-> "pong"]
AgentMessage(name, message) ==
    [type |-> "agent_message", agent_name |-> name, message |-> message]
ErrorEvent(message) == [type |-> "error", message |-> message]

\* the except clauses of _get_jury_response
JuryErrorMessage(e) ==
    CASE e = "RateLimitError" -> "daily limit"
      [] e = "AuthenticationError" -> "authentication issue"
      [] OTHER -> "unexpected error"

\* the except clause of get_agent_response
ProcessingErrorMessage(e) == "error processing your message"

\* the except clauses of get_agent_responses (conversation mode)
ConversationErrorMessage(e) ==
    CASE e = "RateLimitError" -> "daily limit"
      [] e = "AuthenticationError" -> "authentication issue"
      [] OTHER -> "error"

Call(agent, task, outcome) == [agent |-> agent, task |-> task, outcome |-> outcome]

\* what sessions.get(id) returns for an id the store does not hold
Absent == [session |-> "absent"]

\* neither store holds the other session's id
NoOthers == [autogen |-> Absent, conversation |-> Absent]

\* no request made yet
NoRequest ==
    [op |-> "none", session_id |-> None, mode |-> None, held |-> {},
     during |-> "idle", events |-> 0]

-----------------------------------------------------------------------------
(* Jury session: autogen_service.ConversationSession *)

NewJurySession ==
    [conversation_history |-> <<>>,
     current_jury_index |-> 0,
     questions_asked |-> 0,
     last_agent_who_asked |-> None]

Counters(s) ==
    [current_jury_index |-> s.current_jury_index,
     questions_asked |-> s.questions_asked,
     last_agent_who_asked |-> s.last_agent_who_asked]

\* variant: the history keeps a window of its latest two entries
AppendUserMessageWindowed(s, name, content) ==
    LET all == Append(s.conversation_history, HistoryEntry(name, content, "user"))
    IN  [s EXCEPT !.conversation_history =
            IF Len(all) > 2 THEN SubSeq(all, Len(all) - 1, Len(all)) ELSE all]

\* get_agent_response: the user message goes to the history first
AppendUserMessage(s, name, content) ==
    [s EXCEPT !.conversation_history = Append(@, HistoryEntry(name, content, "user"))]

\* variant: the limit test written with ">"
EvaluationCompleteOffByOne(s) == s.questions_asked > max_questions

\* "if self.questions_asked >= self.max_questions"
EvaluationComplete(s) == s.questions_asked >= max_questions

\* variant: the utterance is not looked at
ThankYouDueAnyText(s, content) == s.last_agent_who_asked # None

\* "if self.last_agent_who_asked is not None and user_message.strip()"
ThankYouDue(s, content) ==
    s.last_agent_who_asked # None /\ Strip(content) # <<>>

\* variant: the index is not advanced
NextJuryIndexStuck(i) == i

\* variant: the modulo is left out
NextJuryIndexNoWrap(i) == i + 1

\* "(self.current_jury_index + 1) % len(self.agents)"
NextJuryIndex(i) == (i + 1) % persona_count

\* variant: the question is counted before its call is awaited
AdvanceJuryCounts(s) ==
    [s EXCEPT !.current_jury_index = NextJuryIndex(s.current_jury_index),
              !.questions_asked = @ + 1]

\* Step 2 of _get_jury_response, up to the awaited question call
AdvanceJury(s) ==
    [s EXCEPT !.current_jury_index = NextJuryIndex(s.current_jury_index)]

\* variant: the asker is not remembered
RecordQuestionKeepsAsker(s, name, text) ==
    [s EXCEPT !.conversation_history = Append(@, HistoryEntry(name, text, "agent")),
              !.questions_asked = @ + 1]

\* variant: the asker is remembered by its internal agent name
RecordQuestionInternalName(s, name, text) ==
    [s EXCEPT !.conversation_history = Append(@, HistoryEntry(name, text, "agent")),
              !.questions_asked = @ + 1,
              !.last_agent_who_asked = ValidName(name)]

\* the question is added to the history, counted, and its asker remembered
RecordQuestion(s, name, text) ==
    [s EXCEPT !.conversation_history = Append(@, HistoryEntry(name, text, "agent")),
              !.questions_asked = @ + 1,
              !.last_agent_who_asked = name]

\* _get_jury_response from its entry to its first suspension point
JuryReceive(content) ==
    LET s == AppendUserMessage(jury, user_name, content)
        last == FindTemplate(s.last_agent_who_asked)
    IN  /\ pre' = jury
        /\ calls' = <<>>
        /\ UNCHANGED <<conv, turn, streamed>>
        /\ IF EvaluationComplete(s)
           THEN IF s.last_agent_who_asked # None /\ last # -1
                THEN /\ jury' = s
                     /\ sent' = <<MessageReceived>>
                     /\ pc' = "final_run"
                ELSE /\ jury' = s
                     /\ sent' = <<MessageReceived,
                                  AgentMessage(TemplateName(0), FallbackText)>>
                     /\ pc' = "idle"
           ELSE IF ThankYouDue(s, content) /\ last # -1
                THEN /\ jury' = s
                     /\ sent' = <<MessageReceived>>
                     /\ pc' = "thank_you_run"
                ELSE /\ jury' = AdvanceJury(s)
                     /\ sent' = <<MessageReceived>>
                     /\ pc' = "question_run"

\* variant: no "return" after the closing message, the fallback line follows
FinalRunReturnsNoReturn ==
    LET name == jury.last_agent_who_asked
    IN  /\ mode = JuryMode /\ pc = "final_run"
        /\ calls' = Append(calls, Call(name, "final", "message"))
        /\ sent' = sent \o <<AgentMessage(name, FinalText),
                              AgentMessage(TemplateName(0), FallbackText)>>
        /\ pc' = "idle"
        /\ UNCHANGED <<channels, stores, request, connected, response,
                       mode, environment_type, user_name, jury, conv,
                       user_message, turn, pre, received, faults, streamed>>

\* variant: the closing message goes out under the first persona's name
FinalRunReturnsFirstPersona ==
    /\ mode = JuryMode /\ pc = "final_run"
    /\ calls' = Append(calls, Call(jury.last_agent_who_asked, "final", "message"))
    /\ sent' = Append(sent, AgentMessage(TemplateName(0), FinalText))
    /\ pc' = "idle"
    /\ UNCHANGED <<channels, stores, request, connected, response,
                   mode, environment_type, user_name, jury, conv,
                   user_message, turn, pre, received, faults, streamed>>

\* "final_result = await last_agent.run(task=final_task)" returns a message
FinalRunReturns ==
    LET name == jury.last_agent_who_asked
    IN  /\ mode = JuryMode /\ pc = "final_run"
        /\ calls' = Append(calls, Call(name, "final", "message"))
        /\ sent' = Append(sent, AgentMessage(name, FinalText))
        /\ pc' = "idle"
        /\ UNCHANGED <<channels, stores, request, connected, response,
                       mode, environment_type, user_name, jury, conv,
                       user_message, turn, pre, received, faults, streamed>>

\* the final call returns no message: the fallback closing line
FinalRunReturnsEmpty ==
    /\ mode = JuryMode /\ pc = "final_run"
    /\ faults < MaxFaults
    /\ faults' = faults + 1
    /\ calls' = Append(calls, Call(jury.last_agent_who_asked, "final", "empty"))
    /\ sent' = Append(sent, AgentMessage(TemplateName(0), FallbackText))
    /\ pc' = "idle"
    /\ UNCHANGED <<channels, stores, request, connected, response,
                   mode, environment_type, user_name, jury, conv,
                   user_message, turn, pre, received, streamed>>

\* the final call raises: it is outside the try of _get_jury_response and is
\* caught by get_agent_response
FinalRunRaises(e) ==
    /\ mode = JuryMode /\ pc = "final_run"
    /\ faults < MaxFaults
    /\ faults' = faults + 1
    /\ calls' = Append(calls, Call(jury.last_agent_who_asked, "final", "raised"))
    /\ sent' = Append(sent, ErrorEvent(ProcessingErrorMessage(e)))
    /\ pc' = "idle"
    /\ UNCHANGED <<channels, stores, request, connected, response,
                   mode, environment_type, user_name, jury, conv,
                   user_message, turn, pre, received, streamed>>

\* "thank_you_result = await thank_you_agent.run(...)" returns a message: it is
\* sent, and the coroutine sleeps 2 seconds
ThankYouRunReturns ==
    LET name == jury.last_agent_who_asked
    IN  /\ mode = JuryMode /\ pc = "thank_you_run"
        /\ calls' = Append(calls, Call(name, "thank_you", "message"))
        /\ sent' = Append(sent, AgentMessage(name, ThankYouText))
        /\ pc' = "sleep"
        /\ UNCHANGED <<channels, stores, request, connected, response,
                       mode, environment_type, user_name, jury, conv,
                       user_message, turn, pre, received, faults, streamed>>

\* the thank-you call returns no message: straight on to the question
ThankYouRunReturnsEmpty ==
    /\ mode = JuryMode /\ pc = "thank_you_run"
    /\ faults < MaxFaults
    /\ faults' = faults + 1
    /\ calls' = Append(calls, Call(jury.last_agent_who_asked, "thank_you", "empty"))
    /\ jury' = AdvanceJury(jury)
    /\ pc' = "question_run"
    /\ UNCHANGED <<channels, stores, request, connected, response,
                   mode, environment_type, user_name, conv, user_message,
                   turn, sent, pre, received, streamed>>

\* variant: the exception ends the receive loop of the channel
ThankYouRunRaisesDisconnects(e) ==
    /\ mode = JuryMode /\ pc = "thank_you_run"
    /\ faults < MaxFaults
    /\ faults' = faults + 1
    /\ calls' = Append(calls, Call(jury.last_agent_who_asked, "thank_you", "raised"))
    /\ sent' = Append(sent, ErrorEvent(JuryErrorMessage(e)))
    /\ pc' = "idle"
    /\ connected' = FALSE
    /\ UNCHANGED <<channels, stores, request, response,
                   mode, environment_type, user_name, jury, conv,
                   user_message, turn, pre, received, streamed>>

\* variant: the index is advanced before the thank-you call
ThankYouRunRaisesAdvanced(e) ==
    /\ mode = JuryMode /\ pc = "thank_you_run"
    /\ faults < MaxFaults
    /\ faults' = faults + 1
    /\ calls' = Append(calls, Call(jury.last_agent_who_asked, "thank_you", "raised"))
    /\ sent' = Append(sent, ErrorEvent(JuryErrorMessage(e)))
    /\ jury' = AdvanceJury(jury)
    /\ pc' = "idle"
    /\ UNCHANGED <<channels, stores, request, connected, response,
                   mode, environment_type, user_name, conv,
                   user_message, turn, pre, received, streamed>>

\* the thank-you call raises: one of the except clauses ends the turn
ThankYouRunRaises(e) ==
    /\ mode = JuryMode /\ pc = "thank_you_run"
    /\ faults < MaxFaults
    /\ faults' = faults + 1
    /\ calls' = Append(calls, Call(jury.last_agent_who_asked, "thank_you", "raised"))
    /\ sent' = Append(sent, ErrorEvent(JuryErrorMessage(e)))
    /\ pc' = "idle"
    /\ UNCHANGED <<channels, stores, request, connected, response,
                   mode, environment_type, user_name, jury, conv,
                   user_message, turn, pre, received, streamed>>

\* "await asyncio.sleep(2.0)" is over: Step 2
SleepDone ==
    /\ mode = JuryMode /\ pc = "sleep"
    /\ jury' = AdvanceJury(jury)
    /\ pc' = "question_run"
    /\ UNCHANGED <<channels, stores, request, connected, response,
                   mode, environment_type, user_name, conv, user_message,
                   turn, sent, calls, pre, received, faults, streamed>>

\* variant: the question is sent and recorded but not counted
QuestionRunReturnsUncounted ==
    LET name == TemplateName(jury.current_jury_index)
    IN  /\ mode = JuryMode /\ pc = "question_run"
        /\ calls' = Append(calls, Call(name, "question", "message"))
        /\ jury' = [RecordQuestion(jury, name, QuestionText)
                       EXCEPT !.questions_asked = jury.questions_asked]
        /\ sent' = Append(sent, AgentMessage(name, QuestionText))
        /\ pc' = "idle"
        /\ UNCHANGED <<channels, stores, request, connected, response,
                       mode, environment_type, user_name, conv, user_message,
                       turn, pre, received, faults, streamed>>

\* "question_result = await next_agent.run(task=question_task)" returns a message
QuestionRunReturns ==
    LET name == TemplateName(jury.current_jury_index)
    IN  /\ mode = JuryMode /\ pc = "question_run"
        /\ calls' = Append(calls, Call(name, "question", "message"))
        /\ jury' = RecordQuestion(jury, name, QuestionText)
        /\ sent' = Append(sent, AgentMessage(name, QuestionText))
        /\ pc' = "idle"
        /\ UNCHANGED <<channels, stores, request, connected, response,
                       mode, environment_type, user_name, conv, user_message,
                       turn, pre, received, faults, streamed>>

\* variant: a question call without a message takes the index back
QuestionRunReturnsEmptyRollsBack ==
    /\ mode = JuryMode /\ pc = "question_run"
    /\ faults < MaxFaults
    /\ faults' = faults + 1
    /\ calls' = Append(calls, Call(TemplateName(jury.current_jury_index),
                                   "question", "empty"))
    /\ jury' = [jury EXCEPT !.current_jury_index = pre.current_jury_index]
    /\ pc' = "idle"
    /\ UNCHANGED <<channels, stores, request, connected, response,
                   mode, environment_type, user_name, conv,
                   user_message, turn, sent, pre, received, streamed>>

\* the question call returns no message: nothing is sent
QuestionRunReturnsEmpty ==
    /\ mode = JuryMode /\ pc = "question_run"
    /\ faults < MaxFaults
    /\ faults' = faults + 1
    /\ calls' = Append(calls, Call(TemplateName(jury.current_jury_index),
                                   "question", "empty"))
    /\ pc' = "idle"
    /\ UNCHANGED <<channels, stores, request, connected, response,
                   mode, environment_type, user_name, jury, conv,
                   user_message, turn, sent, pre, received, streamed>>

\* variant: the except clauses restore the index the turn started with
QuestionRunRaisesRollsBack(e) ==
    /\ mode = JuryMode /\ pc = "question_run"
    /\ faults < MaxFaults
    /\ faults' = faults + 1
    /\ calls' = Append(calls, Call(TemplateName(jury.current_jury_index),
                                   "question", "raised"))
    /\ jury' = [jury EXCEPT !.current_jury_index = pre.current_jury_index]
    /\ sent' = Append(sent, ErrorEvent(JuryErrorMessage(e)))
    /\ pc' = "idle"
    /\ UNCHANGED <<channels, stores, request, connected, response,
                   mode, environment_type, user_name, conv, user_message,
                   turn, pre, received, streamed>>

\* the question call raises
QuestionRunRaises(e) ==
    /\ mode = JuryMode /\ pc = "question_run"
    /\ faults < MaxFaults
    /\ faults' = faults + 1
    /\ calls' = Append(calls, Call(TemplateName(jury.current_jury_index),
                                   "question", "raised"))
    /\ sent' = Append(sent, ErrorEvent(JuryErrorMessage(e)))
    /\ pc' = "idle"
    /\ UNCHANGED <<channels, stores, request, connected, response,
                   mode, environment_type, user_name, jury, conv,
                   user_message, turn, pre, received, streamed>>

-----------------------------------------------------------------------------
(* Conversation-mode session: conversation_service.ConversationSession *)

NewConversationSession ==
    [conversation_history |-> <<>>, conversation_turns |-> 0]

NoTurn == [response_count |-> 0, max_responses |-> 0, responding_agents |-> {}]

\* variant: the limit test written with ">"
TurnLimitReachedOffByOne(s) == s.conversation_turns > max_conversation_turns

\* "if self.conversation_turns >= self.max_conversation_turns"
TurnLimitReached(s) == s.conversation_turns >= max_conversation_turns

\* variant: the larger cap whatever the history holds
MaxResponsesAlwaysThree(s) == 3

\* "max_responses = 3 if len(self.conversation_history) > 5 else 2"
MaxResponses(s) == IF Len(s.conversation_history) > HistoryThreshold THEN 3 ELSE 2

\* variant: the turn is not counted
StartTurnUncounted(s) == s

\* "self.conversation_turns += 1" and the locals of the turn
StartTurn(s) ==
    [s EXCEPT !.conversation_turns = @ + 1]

\* the markers of the prompt template
ContextMarker == "Previous conversation context:"
SaidMarker == "User just said:"

\* what the group chat streams: messages, and a result that has no content
StreamSources == AgentKeys \cup {user_name, "User", "stranger"}
StreamTexts ==
    {<<>>, <<" ">>, <<"o", "k">>, <<"h", "i">>, <<"H", "I">>, <<"h", "i", " ">>,
     <<ContextMarker, "o", "k">>, <<"o", "k", SaidMarker>>}
StreamItems ==
    [kind : {"message"}, source : StreamSources, content : StreamTexts]
        \cup {[kind |-> "result", source |-> "", content |-> <<>>]}

\* "hasattr(response, 'content') and response.content.strip()"
HasText(item) == item.kind = "message" /\ Strip(item.content) # <<>>

\* variant: the reply is compared with the message as it was typed only
IsEchoAsTyped(item, content) == item.content = content

\* the echo filter
IsEcho(item, content) ==
    \/ Lower(Strip(item.content)) = Lower(Strip(content))
    \/ Strip(item.content) = Strip(content)

\* variant: only the default label counts as the user
FromUserDefaultLabel(item, name) == item.source = "User"

\* "response.source == user_name or response.source == 'User'"
FromUser(item, name) == item.source = name \/ item.source = "User"

\* "response.source not in self.agent_name_mapping"
UnknownAgent(item) == item.source \notin AgentKeys

\* variant: no memory of who replied in the turn
AlreadyRespondedNever(item, t) == FALSE

\* "response.source in responding_agents"
AlreadyResponded(item, t) == item.source \in t.responding_agents

\* variant: only the first marker is looked for
LeaksPromptContextOnly(item) ==
    \E i \in 1..Len(item.content) : item.content[i] = ContextMarker

\* the prompt template leaks through
LeaksPrompt(item) ==
    \E i \in 1..Len(item.content) : item.content[i] \in {ContextMarker, SaidMarker}

\* a streamed item that passes every filter of the loop body
Accepted(item, content, name, t) ==
    /\ HasText(item)
    /\ ~IsEcho(item, content)
    /\ ~FromUser(item, name)
    /\ ~UnknownAgent(item)
    /\ ~AlreadyResponded(item, t)
    /\ ~LeaksPrompt(item)

\* no item handled yet
NoResponse ==
    [item |-> [kind |-> "none", source |-> "", content |-> <<>>], printed |-> "",
     dropped |-> {}]

\* the line the loop body prints for a streamed item: which branch took it
Printed(item, content, name, t) ==
    IF t.response_count >= t.max_responses THEN "Reached max responses limit"
    ELSE IF ~HasText(item) THEN "Received response"
    ELSE IF IsEcho(item, content) THEN "Skipping echo"
    ELSE IF FromUser(item, name) THEN "Skipping user response"
    ELSE IF UnknownAgent(item) THEN "Skipping unknown agent"
    ELSE IF AlreadyResponded(item, t) THEN "already responded, skipping"
    ELSE IF LeaksPrompt(item) THEN "Skipping system message"
    ELSE "Yielding response"

\* variant: the limit is checked before the user message is recorded
ConvReceiveChecksFirst(content) ==
    LET s == AppendUserMessage(conv, user_name, content)
    IN  /\ pre' = conv
        /\ calls' = <<>>
        /\ sent' = <<MessageReceived>>
        /\ streamed' = 0
        /\ UNCHANGED jury
        /\ IF TurnLimitReached(conv)
           THEN /\ conv' = conv
                /\ pc' = "idle"
                /\ UNCHANGED turn
           ELSE /\ conv' = StartTurn(s)
                /\ turn' = [response_count |-> 0,
                            max_responses |-> MaxResponses(s),
                            responding_agents |-> {}]
                /\ pc' = "stream"

\* get_agent_responses from its entry to the first item of the stream
ConvReceive(content) ==
    LET s == AppendUserMessage(conv, user_name, content)
    IN  /\ pre' = conv
        /\ calls' = <<>>
        /\ sent' = <<MessageReceived>>
        /\ streamed' = 0
        /\ UNCHANGED jury
        /\ IF TurnLimitReached(s)
           THEN /\ conv' = s
                /\ pc' = "idle"
                /\ UNCHANGED turn
           ELSE /\ conv' = StartTurn(s)
                /\ turn' = [response_count |-> 0,
                            max_responses |-> MaxResponses(s),
                            responding_agents |-> {}]
                /\ pc' = "stream"

\* variant: an accepted reply is sent but not recorded
HandleItemUnrecorded(item) ==
    /\ mode = EnvironmentMode /\ pc = "stream"
    /\ streamed < MaxStream
    /\ streamed' = streamed + 1
    /\ IF turn.response_count >= turn.max_responses
       THEN /\ pc' = "idle"
            /\ UNCHANGED <<conv, turn, sent>>
       ELSE IF Accepted(item, user_message, user_name, turn)
            THEN /\ turn' = [turn EXCEPT
                                !.responding_agents = @ \cup {item.source},
                                !.response_count = @ + 1]
                 /\ sent' = Append(sent, AgentMessage(DisplayName(item.source),
                                                      item.content))
                 /\ pc' = "pace"
                 /\ UNCHANGED conv
            ELSE UNCHANGED <<conv, turn, sent, pc>>
    /\ UNCHANGED <<channels, stores, request, connected,
                   mode, environment_type, user_name, jury, user_message,
                   calls, pre, received, faults>>

\* the persona whose reply one of the "continue" statements skips
Skipped(item, content, name, t) ==
    IF /\ t.response_count < t.max_responses
       /\ item.kind = "message"
       /\ item.source \in AgentKeys
       /\ ~Accepted(item, content, name, t)
    THEN {item.source}
    ELSE {}

\* variant: at the cap an item is dropped and the loop goes on
HandleItemKeepsListening(item) ==
    /\ mode = EnvironmentMode /\ pc = "stream"
    /\ streamed < MaxStream
    /\ streamed' = streamed + 1
    /\ IF turn.response_count < turn.max_responses
          /\ Accepted(item, user_message, user_name, turn)
       THEN /\ turn' = [turn EXCEPT
                           !.responding_agents = @ \cup {item.source},
                           !.response_count = @ + 1]
            /\ conv' = [conv EXCEPT !.conversation_history =
                           Append(@, HistoryEntry(item.source, item.content, "agent"))]
            /\ sent' = Append(sent, AgentMessage(DisplayName(item.source),
                                                 item.content))
            /\ pc' = "pace"
       ELSE UNCHANGED <<conv, turn, sent, pc>>
    /\ UNCHANGED <<channels, stores, request, connected,
                   mode, environment_type, user_name, jury, user_message,
                   calls, pre, received, faults>>

\* variant: a persona whose reply is skipped is marked as having replied
HandleItemMarksSkipped(item) ==
    /\ mode = EnvironmentMode /\ pc = "stream"
    /\ streamed < MaxStream
    /\ streamed' = streamed + 1
    /\ IF turn.response_count >= turn.max_responses
       THEN /\ pc' = "idle"
            /\ UNCHANGED <<conv, turn, sent>>
       ELSE IF Accepted(item, user_message, user_name, turn)
            THEN /\ turn' = [turn EXCEPT
                                !.responding_agents = @ \cup {item.source},
                                !.response_count = @ + 1]
                 /\ conv' = [conv EXCEPT !.conversation_history =
                                Append(@, HistoryEntry(item.source, item.content, "agent"))]
                 /\ sent' = Append(sent, AgentMessage(DisplayName(item.source),
                                                      item.content))
                 /\ pc' = "pace"
            ELSE /\ turn' = [turn EXCEPT
                                !.responding_agents = @ \cup {item.source}]
                 /\ UNCHANGED <<conv, sent, pc>>
    /\ UNCHANGED <<channels, stores, request, connected,
                   mode, environment_type, user_name, jury, user_message,
                   calls, pre, received, faults>>

\* the body of "async for response in ..." for one streamed item
HandleItem(item) ==
    /\ mode = EnvironmentMode /\ pc = "stream"
    /\ streamed < MaxStream
    /\ streamed' = streamed + 1
    /\ IF turn.response_count >= turn.max_responses
       THEN /\ pc' = "idle"
            /\ UNCHANGED <<conv, turn, sent>>
       ELSE IF Accepted(item, user_message, user_name, turn)
            THEN /\ turn' = [turn EXCEPT
                                !.responding_agents = @ \cup {item.source},
                                !.response_count = @ + 1]
                 /\ conv' = [conv EXCEPT !.conversation_history =
                                Append(@, HistoryEntry(item.source, item.content, "agent"))]
                 /\ sent' = Append(sent, AgentMessage(DisplayName(item.source),
                                                      item.content))
                 /\ pc' = "pace"
            ELSE UNCHANGED <<conv, turn, sent, pc>>
    /\ UNCHANGED <<channels, stores, request, connected,
                   mode, environment_type, user_name, jury, user_message,
                   calls, pre, received, faults>>

\* the stream yields an item
StreamYields(item) ==
    /\ HandleItem(item)
    /\ UNCHANGED response

\* the stream yields an item, which is kept with the line printed for it and
\* the personas whose replies the turn has skipped
StreamYieldsKept(item) ==
    /\ HandleItem(item)
    /\ response' = [item |-> item,
                    printed |-> Printed(item, user_message, user_name, turn),
                    dropped |-> response.dropped
                                   \cup Skipped(item, user_message, user_name, turn)]

\* "await asyncio.sleep(2.5)" is over
PaceDone ==
    /\ mode = EnvironmentMode /\ pc = "pace"
    /\ pc' = "stream"
    /\ UNCHANGED <<channels, stores, request, connected, response,
                   mode, environment_type, user_name, jury, conv,
                   user_message, turn, sent, calls, pre, received, faults,
                   streamed>>

\* the stream is exhausted
StreamEnds ==
    /\ mode = EnvironmentMode /\ pc = "stream"
    /\ pc' = "idle"
    /\ UNCHANGED <<channels, stores, request, connected, response,
                   mode, environment_type, user_name, jury, conv,
                   user_message, turn, sent, calls, pre, received, faults,
                   streamed>>

\* variant: the failed turn takes its replies back out of the history
StreamRaisesRetracts(e) ==
    /\ mode = EnvironmentMode /\ pc = "stream"
    /\ calls' = Append(calls, Call("group_chat", "run_stream", "raised"))
    /\ sent' = Append(sent, ErrorEvent(ConversationErrorMessage(e)))
    /\ conv' = [conv EXCEPT !.conversation_history =
                    SubSeq(@, 1, Len(pre.conversation_history) + 1)]
    /\ pc' = "idle"
    /\ UNCHANGED <<channels, stores, request, connected, response,
                   mode, environment_type, user_name, jury,
                   user_message, turn, pre, received, faults,
                   streamed>>

\* the group chat raises
StreamRaises(e) ==
    /\ mode = EnvironmentMode /\ pc = "stream"
    /\ calls' = Append(calls, Call("group_chat", "run_stream", "raised"))
    /\ sent' = Append(sent, ErrorEvent(ConversationErrorMessage(e)))
    /\ pc' = "idle"
    /\ UNCHANGED <<channels, stores, request, connected, response,
                   mode, environment_type, user_name, jury, conv,
                   user_message, turn, pre, received, faults,
                   streamed>>

-----------------------------------------------------------------------------
(* Channel: app.websocket_endpoint *)

\* the session id in the channel's path, and the id of another session
ChannelId == "s1"
OtherId == "s2"
SessionIds == {ChannelId, OtherId}

\* one of the two lookups finds the id
InEitherStore(id) == id \in autogen_sessions \cup conversation_sessions

\* variant: the acknowledgment is sent only once a session is found
SessionNotFoundSilent ==
    /\ pre' = Absent
    /\ calls' = <<>>
    /\ sent' = <<>>
    /\ UNCHANGED <<jury, conv, pc, turn, streamed>>

\* "Session ... not found in either service": only the acknowledgment,
\* which was sent before the lookups
SessionNotFound ==
    /\ pre' = Absent
    /\ calls' = <<>>
    /\ sent' = <<MessageReceived>>
    /\ UNCHANGED <<jury, conv, pc, turn, streamed>>

\* variant: the conversation store is tried first and its service handles the
\* message whichever store holds the id
ReceiveUserMessageConversationFirst(content) ==
    /\ pc = "idle" /\ connected
    /\ received' = received + 1
    /\ user_message' = content
    /\ response' = NoResponse
    /\ IF InEitherStore(ChannelId) THEN ConvReceive(content)
       ELSE SessionNotFound
    /\ UNCHANGED <<channels, stores, request, connected, mode, environment_type, user_name,
                   faults>>

\* a "user_message" arrives: the acknowledgment, the lookups, then the
\* session's turn up to its first suspension point
ReceiveUserMessage(content) ==
    /\ pc = "idle" /\ connected
    /\ received' = received + 1
    /\ user_message' = content
    /\ response' = NoResponse
    /\ IF ChannelId \in autogen_sessions THEN JuryReceive(content)
       ELSE IF ChannelId \in conversation_sessions THEN ConvReceive(content)
       ELSE SessionNotFound
    /\ UNCHANGED <<channels, stores, request, connected, mode, environment_type, user_name,
                   faults>>

\* variant: a ping is answered while a turn is still running
PingDuringTurn ==
    /\ connected
    /\ sent' = <<Pong>>
    /\ calls' = <<>>
    /\ UNCHANGED <<channels, stores, request, connected, response,
                   mode, environment_type, user_name, jury, conv, pc,
                   user_message, turn, pre, received, faults, streamed>>

\* variant: a ping is acknowledged like a user message before its pong
PingAcknowledged ==
    /\ pc = "idle" /\ connected
    /\ sent' = <<MessageReceived, Pong>>
    /\ calls' = <<>>
    /\ UNCHANGED <<channels, stores, request, connected, response,
                   mode, environment_type, user_name, jury, conv, pc,
                   user_message, turn, pre, received, faults, streamed>>

\* a "ping" arrives
Ping ==
    /\ pc = "idle" /\ connected
    /\ sent' = <<Pong>>
    /\ calls' = <<>>
    /\ UNCHANGED <<channels, stores, request, connected, response,
                   mode, environment_type, user_name, jury, conv, pc,
                   user_message, turn, pre, received, faults, streamed>>

\* the session another client has talked to once: one turn, no reply
UsedConversationSession ==
    StartTurn(AppendUserMessage(NewConversationSession, "User", Greeting))

\* variant: the sessions that stay stored are started afresh
RemoveSessionRewindsOthers(id) ==
    /\ autogen_sessions' = autogen_sessions \ {id}
    /\ conversation_sessions' = conversation_sessions \ {id}
    /\ others' =
          (IF id = OtherId THEN NoOthers
           ELSE [autogen |-> (IF others.autogen = Absent THEN Absent
                              ELSE NewJurySession),
                 conversation |-> (IF others.conversation = Absent THEN Absent
                                   ELSE NewConversationSession)])
    /\ UNCHANGED <<channels, connected, response, mode, environment_type, user_name,
                   jury, conv, pc, user_message, turn, sent, calls, pre,
                   received, faults, streamed>>

\* variant: removing the channel's session ends the turn it is in
RemoveSessionCancelsTurn(id) ==
    /\ autogen_sessions' = autogen_sessions \ {id}
    /\ conversation_sessions' = conversation_sessions \ {id}
    /\ others' = (IF id = OtherId THEN NoOthers ELSE others)
    /\ pc' = (IF id = ChannelId THEN "idle" ELSE pc)
    /\ UNCHANGED <<channels, connected, response, mode, environment_type, user_name,
                   jury, conv, user_message, turn, sent, calls, pre,
                   received, faults, streamed>>

\* reset_session(id) of both services: "del self.sessions[session_id]"
RemoveSession(id) ==
    /\ autogen_sessions' = autogen_sessions \ {id}
    /\ conversation_sessions' = conversation_sessions \ {id}
    /\ others' = (IF id = OtherId THEN NoOthers ELSE others)
    /\ UNCHANGED <<channels, connected, response, mode, environment_type, user_name,
                   jury, conv, pc, user_message, turn, sent, calls, pre,
                   received, faults, streamed>>

\* "sessions.clear()" of both services
ClearSessions ==
    /\ autogen_sessions' = {}
    /\ conversation_sessions' = {}
    /\ others' = NoOthers
    /\ UNCHANGED <<channels, connected, response, mode, environment_type, user_name,
                   jury, conv, pc, user_message, turn, sent, calls, pre,
                   received, faults, streamed>>

\* "/reset" with a session id: reset_session of both services
ResetSession(id) ==
    /\ RemoveSession(id)
    /\ UNCHANGED request

\* "/reset" without a session id: both stores are cleared
ResetAll ==
    /\ ClearSessions
    /\ UNCHANGED request

\* the stores that hold the id
Holders(id) ==
    (IF id \in autogen_sessions THEN {"autogen"} ELSE {})
        \cup (IF id \in conversation_sessions THEN {"conversation"} ELSE {})

\* a request as the properties see it: what was asked, which stores held the
\* id when it was served, where the channel's handler stood and how many
\* events it had sent for the message in hand
Request(op, session_id, m) ==
    [op |-> op, session_id |-> session_id, mode |-> m,
     held |-> Holders(session_id), during |-> pc, events |-> Len(sent)]

\* the ids a "/reset" request may carry: a session's id, one that no session
\* has, the empty string, or none at all
ResetIds == SessionIds \cup {"s3", "", None}

\* variant: only a missing id clears the stores
reset_conversation_if_given(session_id) ==
    /\ IF session_id # None
       THEN RemoveSession(session_id)
       ELSE ClearSessions
    /\ request' = Request("reset", session_id, None)

\* reset_conversation: "if session_id:" is false for None and for ""
reset_conversation(session_id) ==
    /\ IF session_id # None /\ session_id # ""
       THEN RemoveSession(session_id)
       ELSE ClearSessions
    /\ request' = Request("reset", session_id, None)

\* variant: a session already stored under the id is kept
create_session_if_new(session_id, m) ==
    /\ session_id = OtherId
    /\ IF m = JuryMode
       THEN /\ autogen_sessions' = autogen_sessions \cup {session_id}
            /\ others' = (IF session_id \in autogen_sessions THEN others
                          ELSE [others EXCEPT !.autogen = NewJurySession])
            /\ UNCHANGED conversation_sessions
       ELSE /\ conversation_sessions' = conversation_sessions \cup {session_id}
            /\ others' = (IF session_id \in conversation_sessions THEN others
                          ELSE [others EXCEPT
                                  !.conversation = NewConversationSession])
            /\ UNCHANGED autogen_sessions
    /\ request' = Request("create", session_id, m)
    /\ UNCHANGED <<channels, connected, response, mode, environment_type, user_name,
                   jury, conv, pc, user_message, turn, sent, calls, pre,
                   received, faults, streamed>>

\* create_session of the service that app.create_session picks for the mode:
\* "self.sessions[session_id] = session", whatever the store held under it
create_session(session_id, m) ==
    /\ session_id = OtherId
    /\ IF m = JuryMode
       THEN /\ autogen_sessions' = autogen_sessions \cup {session_id}
            /\ others' = [others EXCEPT !.autogen = NewJurySession]
            /\ UNCHANGED conversation_sessions
       ELSE /\ conversation_sessions' = conversation_sessions \cup {session_id}
            /\ others' = [others EXCEPT !.conversation = NewConversationSession]
            /\ UNCHANGED autogen_sessions
    /\ request' = Request("create", session_id, m)
    /\ UNCHANGED <<channels, connected, response, mode, environment_type, user_name,
                   jury, conv, pc, user_message, turn, sent, calls, pre,
                   received, faults, streamed>>

\* the client closes the channel: receive_json raises WebSocketDisconnect
Disconnect ==
    /\ pc = "idle" /\ connected
    /\ connected' = FALSE
    /\ UNCHANGED <<channels, stores, request, response, mode, environment_type, user_name,
                   jury, conv, pc, user_message, turn, sent, calls, pre,
                   received, faults, streamed>>

-----------------------------------------------------------------------------
(* Several channels opened with the id of one session: every
   websocket_endpoint coroutine fetches the same session object and runs its
   own generator on it *)

Channels == 1..MaxChannels

\* a handler between messages: no call pending, no turn locals
IdleChannel == [pc |-> "idle", agent |-> None, turn |-> NoTurn]

NoChannels == [c \in Channels |-> IdleChannel]

\* what the steps of the channels that share a session leave alone
SharedFrame ==
    UNCHANGED <<stores, request, connected, response, mode, environment_type,
                user_name, pc, user_message, turn, sent, calls, pre, faults,
                streamed>>

\* the handler of channel c is at "at", with the template it picked
Suspend(c, at, name) ==
    channels' = [channels EXCEPT ![c] = [pc |-> at, agent |-> name,
                                         turn |-> NoTurn]]

\* a user message arrives on channel c of a jury session: the history
\* append and the limit check, up to the first awaited model call
SharedJuryReceive(c, content) ==
    LET s == AppendUserMessage(jury, user_name, content)
        last == FindTemplate(s.last_agent_who_asked)
    IN  /\ mode = JuryMode /\ channels[c].pc = "idle"
        /\ received' = received + 1
        /\ IF EvaluationComplete(s)
           THEN IF s.last_agent_who_asked # None /\ last # -1
                THEN jury' = s /\ Suspend(c, "final_run", TemplateName(last))
                ELSE jury' = s /\ UNCHANGED channels
           ELSE IF ThankYouDue(s, content) /\ last # -1
                THEN jury' = s
                        /\ Suspend(c, "thank_you_run", TemplateName(last))
                ELSE /\ jury' = AdvanceJury(s)
                     /\ Suspend(c, "question_run",
                                TemplateName(NextJuryIndex(s.current_jury_index)))
        /\ UNCHANGED conv
        /\ SharedFrame

\* the closing call of channel c returns: the closing message is sent
SharedFinalRunReturns(c) ==
    /\ mode = JuryMode /\ channels[c].pc = "final_run"
    /\ channels' = [channels EXCEPT ![c] = IdleChannel]
    /\ UNCHANGED <<jury, conv, received>>
    /\ SharedFrame

\* the thank-you call of channel c returns: the thank-you is sent and the
\* coroutine sleeps
SharedThankYouRunReturns(c) ==
    /\ mode = JuryMode /\ channels[c].pc = "thank_you_run"
    /\ Suspend(c, "sleep", channels[c].agent)
    /\ UNCHANGED <<jury, conv, received>>
    /\ SharedFrame

\* the sleep of channel c is over: Step 2 advances the index of the session
\* as it is now and picks that persona
SharedSleepDone(c) ==
    /\ mode = JuryMode /\ channels[c].pc = "sleep"
    /\ jury' = AdvanceJury(jury)
    /\ Suspend(c, "question_run",
               TemplateName(NextJuryIndex(jury.current_jury_index)))
    /\ UNCHANGED <<conv, received>>
    /\ SharedFrame

\* variant: a question is recorded only while the limit is not reached
SharedQuestionRunReturnsRechecked(c) ==
    /\ mode = JuryMode /\ channels[c].pc = "question_run"
    /\ jury' = (IF EvaluationComplete(jury) THEN jury
                ELSE RecordQuestion(jury, channels[c].agent, QuestionText))
    /\ channels' = [channels EXCEPT ![c] = IdleChannel]
    /\ UNCHANGED <<conv, received>>
    /\ SharedFrame

\* the question call of channel c returns: the question of the persona the
\* turn picked is recorded, counted and sent
SharedQuestionRunReturns(c) ==
    /\ mode = JuryMode /\ channels[c].pc = "question_run"
    /\ jury' = RecordQuestion(jury, channels[c].agent, QuestionText)
    /\ channels' = [channels EXCEPT ![c] = IdleChannel]
    /\ UNCHANGED <<conv, received>>
    /\ SharedFrame

\* variant: the turn is not counted before the stream is awaited
SharedConvReceiveCountsLate(c, content) ==
    LET s == AppendUserMessage(conv, user_name, content)
    IN  /\ mode = EnvironmentMode /\ channels[c].pc = "idle"
        /\ received' = received + 1
        /\ IF TurnLimitReached(s)
           THEN conv' = s /\ UNCHANGED channels
           ELSE /\ conv' = s
                /\ channels' = [channels EXCEPT ![c] =
                        [pc |-> "stream", agent |-> None,
                         turn |-> [response_count |-> 0,
                                   max_responses |-> MaxResponses(s),
                                   responding_agents |-> {}]]]
        /\ UNCHANGED jury
        /\ SharedFrame

\* a user message arrives on channel c of a conversation-mode session: the
\* history append, the limit check and the turn count, up to the stream
SharedConvReceive(c, content) ==
    LET s == AppendUserMessage(conv, user_name, content)
    IN  /\ mode = EnvironmentMode /\ channels[c].pc = "idle"
        /\ received' = received + 1
        /\ IF TurnLimitReached(s)
           THEN conv' = s /\ UNCHANGED channels
           ELSE /\ conv' = StartTurn(s)
                /\ channels' = [channels EXCEPT ![c] =
                        [pc |-> "stream", agent |-> None,
                         turn |-> [response_count |-> 0,
                                   max_responses |-> MaxResponses(s),
                                   responding_agents |-> {}]]]
        /\ UNCHANGED jury
        /\ SharedFrame

\* the stream of channel c is exhausted, or the group chat raises and the
\* error is sent: the turn is over
SharedStreamEnds(c) ==
    /\ mode = EnvironmentMode /\ channels[c].pc = "stream"
    /\ channels' = [channels EXCEPT ![c] = IdleChannel]
    /\ UNCHANGED <<jury, conv, received>>
    /\ SharedFrame

-----------------------------------------------------------------------------
(* Specifications *)

\* create_session with mode "presentation-jury-mode", then the channel opens
Init ==
    /\ mode = JuryMode
    /\ environment_type = "school"
    /\ user_name \in UserNames
    /\ jury = NewJurySession
    /\ conv = NewConversationSession
    /\ pc = "idle"
    /\ user_message = <<>>
    /\ turn = NoTurn
    /\ sent = <<>>
    /\ calls = <<>>
    /\ pre = NewJurySession
    /\ received = 0
    /\ faults = 0
    /\ streamed = 0
    /\ response = NoResponse
    /\ autogen_sessions = {ChannelId}
    /\ conversation_sessions = {}
    /\ others = NoOthers
    /\ request = NoRequest
    /\ connected = TRUE
    /\ channels = NoChannels

Next ==
    \/ \E content \in UserMessages :
          received < MaxMessages /\ ReceiveUserMessage(content)
    \/ Ping
    \/ FinalRunReturns
    \/ FinalRunReturnsEmpty
    \/ \E e \in Errors : FinalRunRaises(e)
    \/ ThankYouRunReturns
    \/ ThankYouRunReturnsEmpty
    \/ \E e \in Errors : ThankYouRunRaises(e)
    \/ SleepDone
    \/ QuestionRunReturns
    \/ QuestionRunReturnsEmpty
    \/ \E e \in Errors : QuestionRunRaises(e)

Spec == Init /\ [][Next]_vars

\* create_session with mode "environment", then the channel opens
InitConversation ==
    /\ mode = EnvironmentMode
    /\ environment_type \in EnvironmentTypes
    /\ user_name \in UserNames
    /\ jury = NewJurySession
    /\ conv = NewConversationSession
    /\ pc = "idle"
    /\ user_message = <<>>
    /\ turn = NoTurn
    /\ sent = <<>>
    /\ calls = <<>>
    /\ pre = NewConversationSession
    /\ received = 0
    /\ faults = 0
    /\ streamed = 0
    /\ response = NoResponse
    /\ autogen_sessions = {}
    /\ conversation_sessions = {ChannelId}
    /\ others = NoOthers
    /\ request = NoRequest
    /\ connected = TRUE
    /\ channels = NoChannels

NextConversation ==
    \/ received < MaxConvMessages /\ ReceiveUserMessage(Greeting)
    \/ Ping
    \/ \E item \in StreamItems : StreamYields(item)
    \/ PaceDone
    \/ StreamEnds
    \/ \E e \in Errors : StreamRaises(e)

SpecConversation == InitConversation /\ [][NextConversation]_vars

\* the run that reaches the turn limit: the group chat streams nothing
NextTurnLimit ==
    \/ received < MaxTurnMessages /\ ReceiveUserMessage(Greeting)
    \/ Ping
    \/ StreamEnds
    \/ \E e \in Errors : StreamRaises(e)

SpecTurnLimit == InitConversation /\ [][NextTurnLimit]_vars

\* the first turn of a conversation-mode session, every streamed item kept
\* for the properties: the user may bear the name of a persona key, and the
\* message has blanks and capitals to strip and lower
FirstTurnUserNames == {"User", "Ana", "max"}
FirstTurnMessages == {Greeting, <<" ", "H", "I">>}

InitFirstTurn ==
    /\ mode = EnvironmentMode
    /\ environment_type \in EnvironmentTypes
    /\ user_name \in FirstTurnUserNames
    /\ jury = NewJurySession
    /\ conv = NewConversationSession
    /\ pc = "idle"
    /\ user_message = <<>>
    /\ turn = NoTurn
    /\ sent = <<>>
    /\ calls = <<>>
    /\ pre = NewConversationSession
    /\ received = 0
    /\ faults = 0
    /\ streamed = 0
    /\ response = NoResponse
    /\ autogen_sessions = {}
    /\ conversation_sessions = {ChannelId}
    /\ others = NoOthers
    /\ request = NoRequest
    /\ connected = TRUE
    /\ channels = NoChannels

NextFirstTurn ==
    \/ \E content \in FirstTurnMessages :
          received = 0 /\ ReceiveUserMessage(content)
    \/ Ping
    \/ \E item \in StreamItems : StreamYieldsKept(item)
    \/ PaceDone
    \/ StreamEnds
    \/ \E e \in Errors : StreamRaises(e)

SpecFirstTurn == InitFirstTurn /\ [][NextFirstTurn]_vars

\* a channel opened for the id of a session of either mode, or for an id
\* that create_session never returned, while "/reset" requests arrive and
\* another session sits in the conversation store
InitChannel ==
    /\ mode \in {JuryMode, EnvironmentMode}
    /\ environment_type = "school"
    /\ user_name \in UserNames
    /\ jury = NewJurySession
    /\ conv = NewConversationSession
    /\ pc = "idle"
    /\ user_message = <<>>
    /\ turn = NoTurn
    /\ sent = <<>>
    /\ calls = <<>>
    /\ pre = (IF mode = JuryMode THEN NewJurySession
              ELSE NewConversationSession)
    /\ received = 0
    /\ faults = 0
    /\ streamed = 0
    /\ response = NoResponse
    /\ \E created \in BOOLEAN :
          /\ autogen_sessions =
                (IF created /\ mode = JuryMode THEN {ChannelId} ELSE {})
          /\ conversation_sessions =
                (IF created /\ mode = EnvironmentMode THEN {ChannelId}
                 ELSE {}) \cup {OtherId}
    /\ others = [NoOthers EXCEPT !.conversation = UsedConversationSession]
    /\ request = NoRequest
    /\ connected = TRUE
    /\ channels = NoChannels

NextChannel ==
    \/ /\ received < (IF mode = JuryMode THEN MaxMessages
                      ELSE MaxChannelTurns)
       /\ ReceiveUserMessage(Greeting)
    \/ Ping
    \/ Disconnect
    \/ \E id \in SessionIds : ResetSession(id)
    \/ ResetAll
    \/ FinalRunReturns
    \/ FinalRunReturnsEmpty
    \/ \E e \in Errors : FinalRunRaises(e)
    \/ ThankYouRunReturns
    \/ ThankYouRunReturnsEmpty
    \/ \E e \in Errors : ThankYouRunRaises(e)
    \/ SleepDone
    \/ QuestionRunReturns
    \/ QuestionRunReturnsEmpty
    \/ \E e \in Errors : QuestionRunRaises(e)
    \/ \E item \in StreamItems : StreamYields(item)
    \/ PaceDone
    \/ StreamEnds
    \/ \E e \in Errors : StreamRaises(e)

SpecChannel == InitChannel /\ [][NextChannel]_vars

\* what the group chat streams in the specification of the stores: one reply
\* of the first persona, or the result
StoreStreamItems ==
    {item \in StreamItems :
        \/ item.kind = "result"
        \/ /\ item.source = ValidName(TemplateName(0))
           /\ item.content = <<"o", "k">>}

\* the channel of InitChannel while other clients create sessions and send
\* "/reset" requests with any id; the question call and the group chat may
\* raise
NextStore ==
    \/ received < MaxStoreMessages /\ ReceiveUserMessage(Greeting)
    \/ Ping
    \/ \E id \in ResetIds : reset_conversation(id)
    \/ \E m \in {JuryMode, EnvironmentMode} : create_session(OtherId, m)
    \/ ThankYouRunReturns
    \/ SleepDone
    \/ QuestionRunReturns
    \/ \E e \in Errors : QuestionRunRaises(e)
    \/ \E item \in StoreStreamItems : StreamYields(item)
    \/ PaceDone
    \/ StreamEnds
    \/ \E e \in Errors : StreamRaises(e)

SpecStore == InitChannel /\ [][NextStore]_vars

\* one jury session and the channels opened with its id; every model call
\* returns a message
NextSharedJury ==
    \/ \E c \in Channels :
          received < MaxSharedMessages /\ SharedJuryReceive(c, Greeting)
    \/ \E c \in Channels : SharedFinalRunReturns(c)
    \/ \E c \in Channels : SharedThankYouRunReturns(c)
    \/ \E c \in Channels : SharedSleepDone(c)
    \/ \E c \in Channels : SharedQuestionRunReturns(c)

SpecSharedJury == Init /\ [][NextSharedJury]_vars

\* one conversation-mode session and the channels opened with its id; the
\* group chat yields no reply
NextSharedConversation ==
    \/ \E c \in Channels :
          received < MaxSharedTurns /\ SharedConvReceive(c, Greeting)
    \/ \E c \in Channels : SharedStreamEnds(c)

SpecSharedConversation == InitConversation /\ [][NextSharedConversation]_vars

\* one jury session on one channel whose model calls all return a message
NextReturning ==
    \/ \E content \in UserMessages :
          received < MaxMessages /\ ReceiveUserMessage(content)
    \/ Ping
    \/ FinalRunReturns
    \/ ThankYouRunReturns
    \/ SleepDone
    \/ QuestionRunReturns

\* every awaited call and every sleep comes back: the event loop resumes the
\* handler when what it awaits is done
ReturningFairness ==
    /\ WF_vars(FinalRunReturns)
    /\ WF_vars(ThankYouRunReturns)
    /\ WF_vars(SleepDone)
    /\ WF_vars(QuestionRunReturns)

SpecReturning == Init /\ [][NextReturning]_vars /\ ReturningFairness

-----------------------------------------------------------------------------
(* Observations used by the properties *)

\* the message in hand is a user message (not a ping)
UserTurn == sent # <<>> /\ sent[1] = MessageReceived

\* the handler has finished the user message in hand
TurnDone == UserTurn /\ pc = "idle"

OfType(events, type) == SelectSeq(events, LAMBDA ev : ev.type = type)

AgentMessagesSent == OfType(sent, "agent_message")

ErrorsSent == OfType(sent, "error")

RaisedCalls == SelectSeq(calls, LAMBDA c : c.outcome = "raised")

\* every user message so far was non-empty after strip()
NonBlankRun ==
    \A i \in 1..Len(jury.conversation_history) :
        jury.conversation_history[i].type = "user"
            => Strip(jury.conversation_history[i].message) # <<>>

AgentEntries(history) == SelectSeq(history, LAMBDA h : h.type = "agent")

-----------------------------------------------------------------------------
(* Properties of the jury session *)

\* C1: in every reachable state of a jury session driven by one channel,
\* questions_asked is at most max_questions (4), whatever the user sends and
\* whichever model calls fail.
C1_QuestionsCapped ==
    mode = JuryMode => jury.questions_asked <= max_questions

\* a message was handled after the fourth question had been asked
C1_Witness ==
    /\ mode = JuryMode
    /\ jury.questions_asked = max_questions
    /\ received > max_questions
    /\ TurnDone

\* C2 as stated: once questions_asked has reached max_questions, every user
\* message yields exactly one agent_message (the closing message) and changes
\* none of current_jury_index, questions_asked, last_agent_who_asked.
C2_AlwaysOneClosingMessage ==
    (mode = JuryMode /\ TurnDone /\ pre.questions_asked >= max_questions)
        => /\ Len(AgentMessagesSent) = 1
           /\ Counters(jury) = Counters(pre)

\* C2 amended: once questions_asked has reached max_questions, every user
\* message yields exactly one event after the acknowledgment and changes no
\* counter: the closing agent_message when the closing call returns (the
\* fallback line of the first persona when it returns no message), a single
\* error event when the closing call raises.
C2_OneClosingOrError ==
    (mode = JuryMode /\ UserTurn /\ pre.questions_asked >= max_questions)
        => /\ Counters(jury) = Counters(pre)
           /\ pc \in {"idle", "final_run"}
           /\ pc = "final_run" => sent = <<MessageReceived>>
           /\ pc = "idle" =>
                /\ Len(sent) = 2
                /\ Len(calls) = 1
                /\ calls[1].task = "final"
                /\ calls[1].outcome = "message" =>
                      sent[2] = AgentMessage(pre.last_agent_who_asked, FinalText)
                /\ calls[1].outcome = "empty" =>
                      sent[2] = AgentMessage(TemplateName(0), FallbackText)
                /\ calls[1].outcome = "raised" =>
                      /\ sent[2].type = "error"
                      /\ AgentMessagesSent = <<>>

\* the closing call of the second message after the last question raised, and
\* an error was sent in place of the closing message
C2_Witness ==
    /\ mode = JuryMode /\ TurnDone
    /\ pre.questions_asked >= max_questions
    /\ received = max_questions + 2
    /\ calls[1].outcome = "raised"
    /\ sent[2].type = "error"

\* C3 as stated: the persona asking successive questions goes round-robin, the
\* first question by the persona at index 1 and every index once, in
\* registration order, before any repeats: question number k is asked by the
\* persona at index k mod persona_count.
C3_QuestionsInRegistrationOrder ==
    (mode = JuryMode /\ jury.questions_asked > 0)
        => jury.last_agent_who_asked
              = TemplateName(jury.questions_asked % persona_count)

\* C3 amended: every question call advances current_jury_index by one modulo
\* persona_count, starting from 0, so the calls go to the personas at 1, 2, 0,
\* 1, ... in registration order, and a question that is sent is asked by the
\* persona at the current index; the questions sent follow that order (number
\* k by the persona at k mod persona_count) as long as no model call has
\* raised or returned no message, a failed question call using up its
\* persona's place.
C3_RoundRobin ==
    /\ [](mode = JuryMode /\ received = 0 => jury.current_jury_index = 0)
    /\ [][jury.current_jury_index' # jury.current_jury_index
            => /\ jury.current_jury_index'
                    = (jury.current_jury_index + 1) % persona_count
               /\ pc' = "question_run"]_vars
    /\ [][pc' = "question_run" /\ pc # "question_run"
            => jury.current_jury_index' # jury.current_jury_index]_vars
    /\ [][jury.questions_asked' # jury.questions_asked
            => /\ pc = "question_run"
               /\ jury.current_jury_index' = jury.current_jury_index
               /\ jury.last_agent_who_asked'
                    = TemplateName(jury.current_jury_index)]_vars
    /\ [](mode = JuryMode /\ faults = 0 /\ jury.questions_asked > 0
            => jury.last_agent_who_asked
                  = TemplateName(jury.questions_asked % persona_count))

\* the index has gone all the way round while a question call had failed
C3_Witness ==
    /\ mode = JuryMode
    /\ faults > 0
    /\ jury.questions_asked = 3
    /\ jury.current_jury_index = 1
    /\ jury.last_agent_who_asked = TemplateName(1)

\* the scenario of C4: three personas, only non-empty user messages, every
\* model call returns a message
Scenario == mode = JuryMode /\ persona_count = 3 /\ faults = 0 /\ NonBlankRun

\* the personas named by the scenario, in order
ScenarioAskers == <<1, 2, 0, 1>>

ScenarioQuestion(k) == AgentMessage(TemplateName(ScenarioAskers[k]), QuestionText)

ScenarioThanks(k) == AgentMessage(TemplateName(ScenarioAskers[k]), ThankYouText)

\* what the channel sends for message number k of the scenario
ScenarioSent(k) ==
    IF k = 1 THEN <<MessageReceived, ScenarioQuestion(1)>>
    ELSE IF k <= 4 THEN <<MessageReceived, ScenarioThanks(k - 1), ScenarioQuestion(k)>>
    ELSE <<MessageReceived, AgentMessage(TemplateName(ScenarioAskers[4]), FinalText)>>

\* the first four messages of the scenario and the fifth
ScenarioQuestionsThenClosing ==
    (Scenario /\ TurnDone)
        => /\ sent = ScenarioSent(received)
           /\ jury.questions_asked = IF received <= 4 THEN received ELSE 4
           /\ Len(AgentEntries(jury.conversation_history)) = jury.questions_asked
           /\ \A k \in 1..jury.questions_asked :
                 AgentEntries(jury.conversation_history)[k].speaker
                     = TemplateName(ScenarioAskers[k])

\* C4 as stated: 4 questions by the personas 1, 2, 0, 1 with 3 thank-yous
\* between them, one closing message for the 5th message, and no further
\* state change on a 6th message.
C4_ScenarioNoChangeOnSixth ==
    /\ ScenarioQuestionsThenClosing
    /\ (Scenario /\ TurnDone /\ received = 6) => jury = pre

\* C4 amended: for a jury session with 3 personas whose model calls all
\* return a message, 4 non-empty user messages yield exactly 4 questions (one
\* per message, by the personas 1, 2, 0, 1) with 3 thank-yous between them,
\* none before the first question; a 5th message yields exactly one closing
\* agent_message; a 6th message changes no counter, but it is recorded in the
\* history as a USER entry and is answered by one more closing message.
C4_ScenarioCountersFrozenOnSixth ==
    /\ ScenarioQuestionsThenClosing
    /\ (Scenario /\ TurnDone /\ received >= 5)
          => /\ Counters(jury) = Counters(pre)
             /\ jury.conversation_history
                   = Append(pre.conversation_history,
                            HistoryEntry(user_name, user_message, "user"))

\* the sixth message of the scenario has been answered
C4_Witness == Scenario /\ TurnDone /\ received = 6

\* C5: every model-generated message of a jury session (question, thank-you,
\* closing message) is in the history with kind AGENT when it is sent.
C5_GeneratedMessagesInHistory ==
    mode = JuryMode =>
        \A i \in 1..Len(sent) :
            (sent[i].type = "agent_message" /\ sent[i].message # FallbackText)
                => \E j \in 1..Len(jury.conversation_history) :
                      jury.conversation_history[j]
                          = HistoryEntry(sent[i].agent_name, sent[i].message, "agent")

\* C6: a jury turn in which a model call raises sends exactly one error
\* event, and questions_asked and last_agent_who_asked are what they were
\* before the turn.
C6_OneErrorCountersKept ==
    mode = JuryMode =>
        /\ Len(ErrorsSent) <= 1
        /\ Len(ErrorsSent) = Len(RaisedCalls)
        /\ RaisedCalls # <<>> =>
              /\ pc = "idle"
              /\ sent[Len(sent)].type = "error"
              /\ jury.questions_asked = pre.questions_asked
              /\ jury.last_agent_who_asked = pre.last_agent_who_asked

\* the question call raised after the thank-you had been sent
C6_Witness ==
    /\ mode = JuryMode
    /\ Len(calls) = 2
    /\ calls[1] = Call(pre.last_agent_who_asked, "thank_you", "message")
    /\ calls[2].task = "question" /\ calls[2].outcome = "raised"
    /\ Len(sent) = 3

\* C7: when the question call of a jury turn raises, current_jury_index keeps
\* the value it was advanced to, and a turn's question call goes to the
\* persona after the index the turn started with: the next question is asked
\* by the persona after the one whose call failed.
C7_NoRollback ==
    mode = JuryMode =>
        \A i \in 1..Len(calls) :
            calls[i].task = "question" =>
                /\ calls[i].agent
                      = TemplateName((pre.current_jury_index + 1) % persona_count)
                /\ jury.current_jury_index
                      = (pre.current_jury_index + 1) % persona_count

\* a question call raised, and the turn before it had ended in a failed
\* question call too: no question asked yet, the index at 2
C7_Witness ==
    /\ mode = JuryMode /\ TurnDone
    /\ calls = <<Call(TemplateName(2), "question", "raised")>>
    /\ pre.current_jury_index = 1
    /\ jury.questions_asked = 0

\* C8: in every reachable state of a jury session,
\* 0 <= current_jury_index < persona_count.
C8_IndexInRange ==
    mode = JuryMode =>
        /\ jury.current_jury_index >= 0
        /\ jury.current_jury_index < persona_count

\* the index has wrapped around to 0
C8_Witness ==
    /\ mode = JuryMode
    /\ jury.current_jury_index = 0
    /\ jury.questions_asked = 3

\* C9: in every reachable state of a jury session, last_agent_who_asked is
\* empty or the name of one of the session's personas, and it is not empty
\* when questions_asked > 0.
C9_LastAskerIsPersona ==
    mode = JuryMode =>
        /\ \/ jury.last_agent_who_asked = None
           \/ \E i \in 0..(persona_count - 1) :
                 jury.last_agent_who_asked = TemplateName(i)
        /\ jury.questions_asked > 0 => jury.last_agent_who_asked # None

\* a question has been asked and its asker remembered
C9_Witness ==
    /\ mode = JuryMode
    /\ jury.questions_asked = 2
    /\ jury.last_agent_who_asked = TemplateName(2)

-----------------------------------------------------------------------------
(* Properties of the conversation-mode session *)

\* C10: in every reachable state of a conversation-mode session driven by one
\* channel, conversation_turns never decreases and is at most
\* max_conversation_turns (20).
C10_TurnsCapped ==
    /\ [](mode = EnvironmentMode
            => conv.conversation_turns <= max_conversation_turns)
    /\ [][conv.conversation_turns' >= conv.conversation_turns]_vars

\* a message arrived after the twentieth turn
C10_Witness ==
    /\ mode = EnvironmentMode
    /\ conv.conversation_turns = max_conversation_turns
    /\ received = max_conversation_turns + 1
    /\ TurnDone

\* the user entry that get_agent_responses records for the message in hand
UserEntry == HistoryEntry(user_name, user_message, "user")

\* the message in hand reached a conversation-mode session at its turn limit
AtTurnLimit ==
    /\ mode = EnvironmentMode
    /\ UserTurn
    /\ pre.conversation_turns >= max_conversation_turns

\* C11 as stated: a user message that reaches a conversation-mode session
\* with conversation_turns >= max_conversation_turns sends no agent_message
\* and no error and leaves conversation_turns and the history unchanged.
C11_RejectedLeavesSessionUnchanged ==
    AtTurnLimit =>
        /\ AgentMessagesSent = <<>>
        /\ ErrorsSent = <<>>
        /\ conv.conversation_turns = pre.conversation_turns
        /\ conv.conversation_history = pre.conversation_history

\* C11: a user message that reaches a conversation-mode session with
\* conversation_turns >= max_conversation_turns is only acknowledged: no
\* agent_message and no error is sent and conversation_turns is unchanged,
\* but the message is still appended to the history as a user entry.
C11_RejectedButRecorded ==
    AtTurnLimit =>
        /\ sent = <<MessageReceived>>
        /\ pc = "idle"
        /\ conv.conversation_turns = pre.conversation_turns
        /\ conv.conversation_history =
              Append(pre.conversation_history, UserEntry)

\* the twenty-first message has been rejected and recorded
C11_Witness ==
    /\ AtTurnLimit
    /\ pc = "idle"
    /\ Len(pre.conversation_history) = max_conversation_turns
    /\ Len(conv.conversation_history) = max_conversation_turns + 1

\* C12 as stated: a conversation-mode turn sends at most 3 agent_messages if
\* the history held more than 5 entries before the message in hand was
\* recorded, and at most 2 otherwise.
C12_CapFromHistoryBeforeMessage ==
    (mode = EnvironmentMode /\ UserTurn) =>
        Len(AgentMessagesSent) <=
            IF Len(pre.conversation_history) > HistoryThreshold THEN 3 ELSE 2

\* C12: a conversation-mode turn sends at most 3 agent_messages if the
\* history holds more than 5 entries once the message in hand is recorded
\* (5 or more before it), and at most 2 otherwise.
C12_CapFromHistoryWithMessage ==
    (mode = EnvironmentMode /\ UserTurn) =>
        Len(AgentMessagesSent) <=
            IF Len(pre.conversation_history) + 1 > HistoryThreshold
            THEN 3 ELSE 2

\* three replies in a turn that began with exactly 5 entries in the history
C12_Witness ==
    /\ mode = EnvironmentMode
    /\ UserTurn
    /\ Len(pre.conversation_history) = HistoryThreshold
    /\ Len(AgentMessagesSent) = 3

-----------------------------------------------------------------------------
(* Properties of the reply filters, on the first turn of a session *)

\* a step in which the loop body handles one streamed item
HandlesItem == streamed' = streamed + 1

\* the step sends nothing and leaves the session as it is
DropsItem == sent' = sent /\ conv' = conv

\* the agent entries of the history (all of the first turn)
AgentHistory == AgentEntries(conv.conversation_history)

\* C13: within one conversation-mode turn no two agent_messages sent carry
\* the same agent_name, and a streamed reply of a persona that already had a
\* reply accepted in the turn is dropped: nothing is sent or recorded for it.
C13_FirstReplyWins ==
    /\ [](mode = EnvironmentMode /\ UserTurn =>
            \A i, j \in 1..Len(AgentMessagesSent) :
                i # j => AgentMessagesSent[i].agent_name
                            # AgentMessagesSent[j].agent_name)
    /\ [][(HandlesItem /\ response'.item.source \in turn.responding_agents)
            => DropsItem]_vars

\* a second reply of a persona was skipped after its first one was sent
C13_Witness ==
    /\ response.printed = "already responded, skipping"
    /\ Len(AgentMessagesSent) = 1
    /\ AgentMessagesSent[1].agent_name = DisplayName(response.item.source)
    /\ pc = "stream"

\* the text equals the message in hand once both are trimmed, as they are
\* or without regard to case
EchoesUser(text) ==
    \/ Strip(text) = Strip(user_message)
    \/ Lower(Strip(text)) = Lower(Strip(user_message))

\* C14: in a conversation-mode turn no agent_message sent and no agent entry
\* of the history has a text equal to the user message, exactly or without
\* regard to case, after trimming; a streamed reply with such a text is
\* dropped.
C14_EchoNeverEmitted ==
    /\ [](mode = EnvironmentMode /\ UserTurn =>
            /\ \A i \in 1..Len(AgentMessagesSent) :
                    ~EchoesUser(AgentMessagesSent[i].message)
            /\ \A i \in 1..Len(AgentHistory) :
                    ~EchoesUser(AgentHistory[i].message))
    /\ [][(HandlesItem /\ response'.item.kind = "message"
                /\ EchoesUser(response'.item.content))
            => DropsItem]_vars

\* a persona's reply "HI" to the message "hi" was skipped as an echo
C14_Witness ==
    /\ response.printed = "Skipping echo"
    /\ response.item.content = <<"H", "I">>
    /\ user_message = Greeting
    /\ response.item.source \in AgentKeys
    /\ response.item.source # user_name
    /\ AgentMessagesSent = <<>>

\* C15: every agent_message sent in a conversation-mode turn bears the name
\* of a registered persona, and its history entry the key of one that is not
\* the sender label of the user (the supplied name or "User"); a streamed
\* reply whose source is the user or is no registered key is dropped.
C15_OnlyRegisteredPersonas ==
    /\ [](mode = EnvironmentMode /\ UserTurn =>
            /\ \A i \in 1..Len(AgentMessagesSent) :
                    FindTemplate(AgentMessagesSent[i].agent_name) >= 0
            /\ \A i \in 1..Len(AgentHistory) :
                    /\ AgentHistory[i].speaker \in AgentKeys
                    /\ AgentHistory[i].speaker \notin {user_name, "User"})
    /\ [][(HandlesItem /\ response'.item.kind = "message"
                /\ \/ response'.item.source \in {user_name, "User"}
                   \/ response'.item.source \notin AgentKeys)
            => DropsItem]_vars

\* the user is called "max": a reply of the persona key "max" was skipped
C15_Witness ==
    /\ response.printed = "Skipping user response"
    /\ user_name = "max"
    /\ response.item.source = "max"
    /\ "max" \in AgentKeys
    /\ response.item.content = <<"o", "k">>

\* the text holds a marker of the prompt template
HoldsMarker(text) ==
    \E i \in 1..Len(text) : text[i] = ContextMarker \/ text[i] = SaidMarker

\* C16: in a conversation-mode turn no agent_message sent and no agent entry
\* of the history holds "Previous conversation context:" or "User just
\* said:"; a streamed reply that holds one is dropped.
C16_MarkersNeverEmitted ==
    /\ [](mode = EnvironmentMode /\ UserTurn =>
            /\ \A i \in 1..Len(AgentMessagesSent) :
                    ~HoldsMarker(AgentMessagesSent[i].message)
            /\ \A i \in 1..Len(AgentHistory) :
                    ~HoldsMarker(AgentHistory[i].message))
    /\ [][(HandlesItem /\ HoldsMarker(response'.item.content))
            => DropsItem]_vars

\* a persona's reply that ends with "User just said:" was skipped
C16_Witness ==
    /\ response.printed = "Skipping system message"
    /\ response.item.content = <<"o", "k", SaidMarker>>
    /\ response.item.source \in AgentKeys
    /\ Len(AgentMessagesSent) = 1

-----------------------------------------------------------------------------
(* Properties of the conversation-mode turn *)

\* what the turn in hand has added to the history
TurnHistory ==
    SubSeq(conv.conversation_history, Len(pre.conversation_history) + 1,
           Len(conv.conversation_history))

\* the agent entries of the turn are the replies sent, in the order sent
RepliesRecorded ==
    LET added == AgentEntries(TurnHistory)
    IN  /\ Len(added) = Len(AgentMessagesSent)
        /\ \A k \in 1..Len(added) :
              /\ added[k].message = AgentMessagesSent[k].message
              /\ DisplayName(added[k].speaker) = AgentMessagesSent[k].agent_name

\* C17: in a conversation-mode turn a reply is in the history, as an agent
\* entry, by the time its agent_message is sent, and the agent entries the
\* turn has added to the history are exactly the replies sent, in the order
\* they were sent.
C17_RepliesRecordedInOrder ==
    (mode = EnvironmentMode /\ UserTurn) =>
        /\ RepliesRecorded
        /\ TurnHistory = <<UserEntry>> \o AgentEntries(TurnHistory)

\* the second turn has sent and recorded the replies of two personas
C17_Witness ==
    /\ mode = EnvironmentMode
    /\ UserTurn
    /\ received = 2
    /\ Len(AgentMessagesSent) = 2
    /\ Len(pre.conversation_history) = 3
    /\ Len(conv.conversation_history) = 6

\* the group chat has raised in the turn in hand
StreamFailed == RaisedCalls # <<>>

\* C18: when the group chat raises in a conversation-mode turn, one error
\* event is sent, as the last event of the turn and after the agent_messages
\* already sent; those replies stay in the history.
C18_OneErrorRepliesKept ==
    /\ [](mode = EnvironmentMode /\ UserTurn =>
            /\ Len(ErrorsSent) = (IF StreamFailed THEN 1 ELSE 0)
            /\ StreamFailed =>
                  /\ sent[Len(sent)].type = "error"
                  /\ pc = "idle"
                  /\ RepliesRecorded)
    /\ [][(mode = EnvironmentMode /\ ~StreamFailed /\ StreamFailed') =>
              /\ conv' = conv
              /\ SubSeq(sent', 1, Len(sent)) = sent]_vars

\* the group chat raised after two replies were sent
C18_Witness ==
    /\ mode = EnvironmentMode
    /\ UserTurn
    /\ StreamFailed
    /\ Len(AgentMessagesSent) = 2
    /\ Len(AgentEntries(TurnHistory)) = 2

-----------------------------------------------------------------------------
(* Properties of the channel and the session stores *)

\* the last event sent is an error event
ErrorLast == sent # <<>> /\ sent[Len(sent)].type = "error"

\* a store holds the channel's session id
InStore == ChannelId \in autogen_sessions \cup conversation_sessions

\* C19: the step that sends an error event, in a turn of either mode, leaves
\* the channel connected and the stores as they are and ends the turn, so
\* that the next user message can be received; a user message received
\* right after an error, its session still stored, is acknowledged,
\* recorded in the history and starts the session's next model call like
\* any other.
C19_ErrorKeepsChannelAndSession ==
    /\ [][Len(ErrorsSent') > Len(ErrorsSent) =>
              /\ connected' /\ connected
              /\ stores' = stores
              /\ pc' = "idle"]_vars
    /\ []((ErrorLast /\ connected) => ENABLED ReceiveUserMessage(Greeting))
    /\ [][(ErrorLast /\ InStore /\ received' = received + 1) =>
              /\ sent' = <<MessageReceived>>
              /\ IF ChannelId \in autogen_sessions
                 THEN /\ jury'.conversation_history =
                            AppendUserMessage(jury, user_name, user_message')
                                .conversation_history
                      /\ jury'.questions_asked = jury.questions_asked
                      /\ pc' \in {"question_run", "thank_you_run", "final_run"}
                 ELSE /\ conv' = StartTurn(
                            AppendUserMessage(conv, user_name, user_message'))
                      /\ pc' = "stream"]_vars

\* an error event ended a turn; the channel is connected, the session is
\* stored and the handler waits for the next message
C19_Witness ==
    /\ ErrorLast
    /\ UserTurn
    /\ pc = "idle"
    /\ connected
    /\ InStore
    /\ received = 1

\* the lookups of the last user message found the id in neither store
NotFound == pre = Absent

\* C20 as stated: a user message received while neither store holds the
\* channel's session id has nothing sent for it on the channel.
C20_NothingSent ==
    NotFound =>
        /\ OfType(sent, "message_received") = <<>>
        /\ AgentMessagesSent = <<>>
        /\ ErrorsSent = <<>>

\* C20: a user message received while neither store holds the channel's
\* session id gets the message_received acknowledgment and nothing else: no
\* agent_message and no error is sent, no turn starts and no session
\* changes.
C20_OnlyAcknowledged ==
    /\ [](NotFound => (sent \in {<<MessageReceived>>, <<Pong>>} /\ pc = "idle"))
    /\ [][(received' = received + 1 /\ ~InStore) =>
              /\ NotFound'
              /\ sent' = <<MessageReceived>>
              /\ UNCHANGED <<jury, conv, turn, stores, connected>>]_vars

\* a jury session answered a message, was reset, and the next message on its
\* channel found no session
C20_Witness ==
    /\ NotFound
    /\ sent = <<MessageReceived>>
    /\ mode = JuryMode
    /\ jury.questions_asked = 1
    /\ received = 2
    /\ ~InStore

-----------------------------------------------------------------------------
(* Properties of the session stores *)

\* a step that serves a "/reset" request
ResetStep ==
    /\ request'.op = "reset"
    /\ request' # request \/ stores' # stores

\* a step that serves a create_session request
CreateStep ==
    /\ request'.op = "create"
    /\ request' # request \/ stores' # stores

\* C21: a "/reset" that carries a session id removes that id, and no other,
\* from both stores and leaves every other session as it is, whatever the
\* id; a "/reset" that carries none empties both stores.
C21_ResetRemovesExactlyThatId ==
    [][ResetStep =>
          LET id == request'.session_id
          IN  IF id # None
              THEN /\ autogen_sessions' = autogen_sessions \ {id}
                   /\ conversation_sessions' = conversation_sessions \ {id}
                   /\ id # OtherId => others' = others
                   /\ jury' = jury /\ conv' = conv
              ELSE /\ autogen_sessions' = {}
                   /\ conversation_sessions' = {}]_vars

\* C22: the store operations never fail.  A lookup of an id that neither
\* store holds finds Absent and leaves the stores as they are; a delete of an
\* id that a store does not hold leaves that store as it is; a create under
\* an id, held or not, puts a fresh session under it in the store of its
\* mode and leaves the other store as it is.
C22_StoreOperationsTotal ==
    /\ [](\A id \in ResetIds : ENABLED reset_conversation(id))
    /\ [](\A m \in {JuryMode, EnvironmentMode} :
            ENABLED create_session(OtherId, m))
    /\ [][(received' = received + 1 /\ ~InStore) =>
              (pre' = Absent /\ stores' = stores)]_vars
    /\ [][(ResetStep /\ request'.session_id \notin {None, ""}) =>
              /\ "autogen" \notin request'.held =>
                    (autogen_sessions' = autogen_sessions
                        /\ others'.autogen = others.autogen)
              /\ "conversation" \notin request'.held =>
                    (conversation_sessions' = conversation_sessions
                        /\ others'.conversation = others.conversation)]_vars
    /\ [][CreateStep =>
              IF request'.mode = JuryMode
              THEN /\ autogen_sessions' = autogen_sessions \cup {OtherId}
                   /\ others'.autogen = NewJurySession
                   /\ conversation_sessions' = conversation_sessions
                   /\ others'.conversation = others.conversation
              ELSE /\ conversation_sessions' =
                         conversation_sessions \cup {OtherId}
                   /\ others'.conversation = NewConversationSession
                   /\ autogen_sessions' = autogen_sessions
                   /\ others'.autogen = others.autogen]_vars

\* a conversation-mode session was created under the id of the used one,
\* which it replaced
C22_Witness ==
    /\ request.op = "create"
    /\ request.mode = EnvironmentMode
    /\ "conversation" \in request.held
    /\ others.conversation = NewConversationSession
    /\ OtherId \in conversation_sessions

\* the orchestrator the message in hand was routed to
TurnRoute ==
    IF pre = Absent THEN None
    ELSE IF "questions_asked" \in DOMAIN pre THEN JuryMode
    ELSE EnvironmentMode

\* C23: a user message goes to the orchestrator whose store holds the
\* channel's id, the jury store first; the session of the other orchestrator
\* and the sessions stored under other ids stay as they are, during the
\* lookup and during the whole turn.
C23_RoutedToOneOrchestrator ==
    /\ [][received' = received + 1 =>
              /\ others' = others
              /\ IF ChannelId \in autogen_sessions
                 THEN TurnRoute' = JuryMode /\ jury' # jury /\ conv' = conv
                 ELSE IF ChannelId \in conversation_sessions
                 THEN TurnRoute' = EnvironmentMode
                          /\ conv' # conv /\ jury' = jury
                 ELSE TurnRoute' = None /\ jury' = jury /\ conv' = conv]_vars
    /\ [][jury' # jury => (TurnRoute' = JuryMode /\ conv' = conv)]_vars
    /\ [][conv' # conv => (TurnRoute' = EnvironmentMode /\ jury' = jury)]_vars
    /\ [][others' # others => (ResetStep \/ CreateStep)]_vars

\* a turn of the channel's session has ended with a reply while a used
\* session is stored under another id
C23_Witness ==
    /\ TurnDone
    /\ Len(AgentMessagesSent) > 0
    /\ others.conversation = UsedConversationSession
    /\ OtherId \in conversation_sessions

\* the loop takes the next inbound message
TakesUserMessage == received' = received + 1
TakesPing == sent' = <<Pong>> /\ (sent' # sent \/ calls' # calls)

\* C24: an inbound message is taken only when the handler of the one before
\* has returned, and what a handler sends after its first step is added to
\* what it has sent, while it runs: nothing of message k follows the
\* acknowledgment or the pong of message k+1.
C24_HandlerRunsToCompletion ==
    /\ [][(TakesUserMessage \/ TakesPing) => pc = "idle"]_vars
    /\ [][(sent' # sent /\ ~TakesUserMessage /\ ~TakesPing) =>
              /\ pc # "idle"
              /\ Len(sent') = Len(sent) + 1
              /\ SubSeq(sent', 1, Len(sent)) = sent
              /\ sent'[Len(sent')].type \in {"agent_message", "error"}]_vars

\* the second user message is acknowledged after the first one's turn has
\* sent its reply and recorded it
C24_Witness ==
    /\ received = 2
    /\ sent = <<MessageReceived>>
    /\ pc # "idle"
    /\ \/ Len(AgentEntries(jury.conversation_history)) > 0
       \/ Len(AgentEntries(conv.conversation_history)) > 0

\* C25: what was sent since the last inbound message is either the one pong
\* of a ping, or one acknowledgment followed by the agent messages and errors
\* of that user message; every user message taken is acknowledged first and
\* every ping taken gets the pong alone.
C25_OneAcknowledgmentFirstOnePong ==
    /\ [](\/ sent = <<>>
          \/ sent = <<Pong>>
          \/ /\ sent[1] = MessageReceived
             /\ \A i \in 2..Len(sent) :
                    sent[i].type \in {"agent_message", "error"})
    /\ [][TakesUserMessage =>
              (sent' # <<>> /\ sent'[1] = MessageReceived)]_vars
    /\ [][(sent' # sent /\ ~TakesUserMessage) =>
              (IF pc = "idle" THEN sent' = <<Pong>>
               ELSE Len(OfType(sent', "message_received")) = 1)]_vars
    /\ [][(sent = <<Pong>> /\ sent' # sent) => TakesUserMessage]_vars

\* a ping is answered after a turn that was acknowledged and replied to
C25_Witness ==
    /\ sent = <<Pong>>
    /\ received > 0
    /\ \/ Len(AgentEntries(jury.conversation_history)) > 0
       \/ Len(AgentEntries(conv.conversation_history)) > 0

\* the personas of the agent messages sent for the message in hand
Speakers == {AgentMessagesSent[i].agent_name : i \in 1..Len(AgentMessagesSent)}

\* C26: a user message that is not rejected at the turn limit counts as one
\* turn from its first step on, whatever the turn then does: replies, no
\* reply, an error.  After the first message to a fresh "office" session the
\* count is 1 and at most 2 agent messages were sent, by different personas
\* among David Kim and Maria Garcia.
C26_EveryAcceptedUtteranceCountsOnce ==
    /\ (UserTurn /\ ~AtTurnLimit) =>
            conv.conversation_turns = pre.conversation_turns + 1
    /\ received <= max_conversation_turns => conv.conversation_turns = received
    /\ (environment_type = "office" /\ received = 1) =>
            /\ conv.conversation_turns = 1
            /\ Len(AgentMessagesSent) <= 2
            /\ Cardinality(Speakers) = Len(AgentMessagesSent)
            /\ Speakers \subseteq {"David Kim", "Maria Garcia"}

\* the first turn of an "office" session ended with two replies
C26_Witness ==
    /\ environment_type = "office"
    /\ received = 1
    /\ TurnDone
    /\ Speakers = {"David Kim", "Maria Garcia"}

\* a counted turn ended with an error and no reply
C26_WitnessError ==
    /\ received = 1
    /\ TurnDone
    /\ Len(ErrorsSent) = 1
    /\ Len(AgentMessagesSent) = 0
    /\ conv.conversation_turns = 1

\* the session stored under the other id is the same before and after
OtherSessionKept ==
    /\ (OtherId \in autogen_sessions /\ OtherId \in autogen_sessions') =>
            others'.autogen = others.autogen
    /\ (OtherId \in conversation_sessions
            /\ OtherId \in conversation_sessions') =>
            others'.conversation = others.conversation

\* C27: the history and counters of a session change only in the steps of
\* its own turn.  A create under another id, a ping, a lookup that finds no
\* session and a reset leave the channel's session as it is; the turns of the
\* channel, a ping and a reset of another id leave the session stored under
\* the other id as it is.
C27_WrittenOnlyByOwnTurn ==
    /\ [][(jury' # jury \/ conv' # conv) =>
              (TakesUserMessage \/ pc # "idle")]_vars
    /\ [][(CreateStep \/ ResetStep \/ TakesPing) =>
              (jury' = jury /\ conv' = conv)]_vars
    /\ [][(TakesUserMessage /\ ~InEitherStore(ChannelId)) =>
              (jury' = jury /\ conv' = conv /\ others' = others)]_vars
    /\ [][(TakesUserMessage \/ TakesPing \/ pc # "idle") =>
              (ResetStep \/ CreateStep \/ others' = others)]_vars
    /\ [][(ResetStep /\ request'.session_id # OtherId) =>
              OtherSessionKept]_vars

\* while the channel's turn is running, a reset of an id that no session
\* has was served and the used session is still stored under the other id
C27_Witness ==
    /\ request = Request("reset", "s3", None)
    /\ pc # "idle"
    /\ Len(jury.conversation_history) + Len(conv.conversation_history) > 0
    /\ others.conversation = UsedConversationSession
    /\ OtherId \in conversation_sessions

\* environment types the catalog has no entry for
UnrecognizedTypes == {"cafe", "School", "", None}

\* C28: the catalog gives the same personas in the same order whenever it
\* is asked: three for "school", and the "school" personas for every
\* environment type it does not know; the personas a session registered
\* when it was made are the ones a later lookup gives, and they are the
\* ones that speak.
C28_CatalogLookup ==
    /\ Len(get_environment_mode("school")) = 3
    /\ \A i, k \in 1..Len(get_environment_mode("school")) :
            i # k => get_environment_mode("school")[i]
                        # get_environment_mode("school")[k]
    /\ \A t \in UnrecognizedTypes \cup (EnvironmentTypes \ {"school", "office"}) :
            get_environment_mode(t) = get_environment_mode("school")
    /\ get_environment_mode("office") # get_environment_mode("school")
    /\ Speakers \subseteq
            {get_environment_mode(environment_type)[k] :
                k \in 1..Len(get_environment_mode(environment_type))}
    /\ environment_type \notin {"school", "office"} =>
            Speakers \subseteq {"Max", "Luna", "Jordan"}

\* a session of an unrecognized environment type had a school persona reply
C28_Witness ==
    /\ environment_type = "cafe"
    /\ TurnDone
    /\ "Luna" \in Speakers

\* the thank-yous and the questions sent for the message in hand
ThankYousSent ==
    SelectSeq(sent, LAMBDA ev : ev.type = "agent_message"
                                   /\ ev.message = ThankYouText)
QuestionsSent ==
    SelectSeq(sent, LAMBDA ev : ev.type = "agent_message"
                                   /\ ev.message = QuestionText)

\* a jury turn below the question limit
QuestionTurn ==
    mode = JuryMode /\ UserTurn /\ pre.questions_asked < max_questions

\* a persona had asked before this turn and the utterance is not blank
ThankYouExpected ==
    pre.last_agent_who_asked # None /\ Strip(user_message) # <<>>

ThankYouCalls == SelectSeq(calls, LAMBDA c : c.task = "thank_you")

\* C29 as stated: in a jury turn below the question limit a thank-you is
\* emitted if and only if last_agent_who_asked is set and the utterance is
\* non-empty after trimming; it is spoken by the previous asker and precedes
\* the question; at most one thank-you, then at most one question.
C29_ThankYouIffAskedAndNonBlank ==
    (QuestionTurn /\ TurnDone) =>
        /\ Len(ThankYousSent) = 1 <=> ThankYouExpected
        /\ Len(ThankYousSent) <= 1 /\ Len(QuestionsSent) <= 1
        /\ Len(ThankYousSent) = 1 =>
              /\ sent[2] = AgentMessage(pre.last_agent_who_asked, ThankYouText)
              /\ \A i \in 1..Len(sent) :
                    sent[i].type = "agent_message" /\ sent[i].message = QuestionText
                        => i > 2

\* C29 amended: in a jury turn below the question limit the thank-you call
\* is made if and only if last_agent_who_asked is set and the utterance is
\* non-empty after trimming, and a thank-you is emitted exactly when that
\* call returns a message: none when it returns no message (the question
\* follows without it) or raises (the turn ends with an error).  An emitted
\* thank-you is spoken by the previous asker and is the first event after
\* the acknowledgment, before the question; a turn emits at most one
\* thank-you followed by at most one question.
C29_ThankYouWhenCallReturns ==
    QuestionTurn =>
        /\ Len(ThankYousSent) <= 1 /\ Len(QuestionsSent) <= 1
        /\ Len(ThankYouCalls) <= 1
        /\ Len(ThankYouCalls) = 1 => (ThankYouExpected /\ calls[1].task = "thank_you")
        /\ (ThankYouExpected /\ pc # "thank_you_run") => Len(ThankYouCalls) = 1
        /\ pc = "thank_you_run" => (ThankYouExpected /\ sent = <<MessageReceived>>)
        /\ Len(ThankYousSent) = 1 <=>
              (Len(ThankYouCalls) = 1 /\ calls[1].outcome = "message")
        /\ Len(ThankYousSent) = 1 =>
              /\ sent[2] = AgentMessage(pre.last_agent_who_asked, ThankYouText)
              /\ \A i \in 1..Len(sent) :
                    sent[i].type = "agent_message" /\ sent[i].message = QuestionText
                        => i = 3
        /\ (Len(ThankYouCalls) = 1 /\ calls[1].outcome = "raised") =>
              (pc = "idle" /\ AgentMessagesSent = <<>> /\ Len(ErrorsSent) = 1)

\* a turn sent the thank-you of the previous asker and then a question
C29_Witness ==
    /\ QuestionTurn /\ TurnDone
    /\ ThankYouExpected
    /\ Len(ThankYousSent) = 1
    /\ Len(QuestionsSent) = 1

\* the thank-you call of a turn returned no message and the question went
\* out without a thank-you
C29_WitnessNoThankYou ==
    /\ QuestionTurn /\ TurnDone
    /\ ThankYouExpected
    /\ Len(ThankYousSent) = 0
    /\ Len(QuestionsSent) = 1

\* the closing messages and the fallback lines sent for the message in hand
ClosingsSent ==
    SelectSeq(sent, LAMBDA ev : ev.type = "agent_message"
                                   /\ ev.message = FinalText)
FallbacksSent ==
    SelectSeq(sent, LAMBDA ev : ev.type = "agent_message"
                                   /\ ev.message = FallbackText)

\* the persona of the last question recorded in the history
LastAsker ==
    LET asked == AgentEntries(jury.conversation_history)
    IN  IF asked = <<>> THEN None ELSE asked[Len(asked)].speaker

\* C30: a closing message of a jury session is spoken by the persona named
\* by last_agent_who_asked, who asked the last question; the fallback line
\* goes out under the first persona's name, and only in a turn in which the
\* closing call gave no message, so never together with a closing message.
C30_ClosingByLastAsker ==
    (mode = JuryMode /\ UserTurn) =>
        /\ \A i \in 1..Len(ClosingsSent) :
              /\ ClosingsSent[i].agent_name = jury.last_agent_who_asked
              /\ ClosingsSent[i].agent_name = LastAsker
              /\ pre.questions_asked >= max_questions
        /\ Len(ClosingsSent) <= 1
        /\ FallbacksSent # <<>> =>
              /\ FallbacksSent = <<AgentMessage(TemplateName(0), FallbackText)>>
              /\ ClosingsSent = <<>>
              /\ pre.questions_asked >= max_questions
              /\ \/ pre.last_agent_who_asked = None
                 \/ calls = <<Call(pre.last_agent_who_asked, "final", "empty")>>

\* the closing message of a persona other than the first was sent
C30_Witness ==
    /\ mode = JuryMode /\ TurnDone
    /\ Len(ClosingsSent) = 1
    /\ ClosingsSent[1].agent_name = jury.last_agent_who_asked
    /\ jury.last_agent_who_asked # TemplateName(0)

\* the closing call gave no message and the fallback line was sent
C30_WitnessFallback ==
    /\ mode = JuryMode /\ TurnDone
    /\ Len(FallbacksSent) = 1
    /\ jury.last_agent_who_asked # TemplateName(0)

\* the replies accepted so far in the turn have reached the cap
CapReached == turn.response_count >= turn.max_responses

\* C31: once the cap of a conversation-mode turn is reached, the next item
\* taken from the stream ends the turn, whatever it is: it is neither sent nor
\* recorded, and no item is taken after it; the replies sent in a turn never
\* exceed the cap.
C31_StopsAtCap ==
    /\ [](mode = EnvironmentMode /\ UserTurn /\ ~NotFound =>
            /\ Len(AgentMessagesSent) <= turn.max_responses
            /\ Len(AgentMessagesSent) = turn.response_count
            /\ Len(conv.conversation_history)
                  = Len(pre.conversation_history) + 1 + turn.response_count)
    /\ [][(HandlesItem /\ CapReached) =>
              /\ DropsItem
              /\ turn' = turn
              /\ pc' = "idle"
              /\ response'.printed = "Reached max responses limit"]_vars
    /\ [][(pc = "idle" /\ HandlesItem) => FALSE]_vars

\* the turn ended at the cap on a reply that would otherwise have been
\* accepted: it has text, comes from a persona that had not replied
C31_Witness ==
    /\ TurnDone
    /\ turn.response_count = 2
    /\ response.printed = "Reached max responses limit"
    /\ Accepted(response.item, user_message, user_name, turn)
    /\ Len(AgentMessagesSent) = 2

\* C32: a streamed item that a filter drops (no text, echo, user source,
\* unknown source, persona that already replied, prompt marker) leaves the
\* count of replies and the set of personas that replied as they are, so
\* whether a later item is accepted does not depend on the items dropped
\* before it: a persona whose reply was dropped can have a later reply of
\* the same turn accepted.
C32_DroppedReplyLeavesNoTrace ==
    /\ [][(HandlesItem /\ ~CapReached
                /\ ~Accepted(response'.item, user_message, user_name, turn)) =>
              /\ turn' = turn
              /\ DropsItem
              /\ pc' = pc]_vars
    /\ [][(HandlesItem /\ ~CapReached
                /\ Accepted(response'.item, user_message, user_name, turn)) =>
              /\ turn'.response_count = turn.response_count + 1
              /\ turn'.responding_agents
                    = turn.responding_agents \cup {response'.item.source}
              /\ Len(sent') = Len(sent) + 1]_vars
    /\ [](mode = EnvironmentMode /\ UserTurn /\ ~NotFound =>
            /\ turn.response_count = Len(AgentMessagesSent)
            /\ turn.response_count = Cardinality(turn.responding_agents)
            /\ \A i \in 1..Len(AgentMessagesSent) :
                  \E a \in turn.responding_agents :
                      AgentMessagesSent[i].agent_name = DisplayName(a))

\* the reply of a persona was accepted after an earlier reply of the same
\* persona had been dropped in the same turn
C32_Witness ==
    /\ UserTurn
    /\ response.printed = "Yielding response"
    /\ response.item.source \in response.dropped
    /\ turn.responding_agents = {response.item.source}
    /\ turn.response_count = 1
    /\ streamed = 2

\* h grows into g by one entry added at the end
AppendsOne(h, g) == Len(g) = Len(h) + 1 /\ SubSeq(g, 1, Len(h)) = h

\* the history of the session the message in hand was routed to
RoutedHistory ==
    IF TurnRoute = JuryMode THEN jury.conversation_history
    ELSE conv.conversation_history

\* C33: the history of a session only grows at its end.  A user message
\* handled by a session adds one user entry, every later step of the turn
\* that changes the history adds one agent entry, and no step changes an
\* entry that is there: what a turn adds is one user entry followed by agent
\* entries.
C33_HistoryAppendOnly ==
    /\ [][TakesUserMessage =>
              IF ChannelId \in autogen_sessions
              THEN jury'.conversation_history
                      = Append(jury.conversation_history,
                               HistoryEntry(user_name, user_message', "user"))
              ELSE IF ChannelId \in conversation_sessions
              THEN conv'.conversation_history
                      = Append(conv.conversation_history,
                               HistoryEntry(user_name, user_message', "user"))
              ELSE TRUE]_vars
    /\ [][(~TakesUserMessage
                /\ jury'.conversation_history # jury.conversation_history) =>
              /\ AppendsOne(jury.conversation_history, jury'.conversation_history)
              /\ jury'.conversation_history[Len(jury'.conversation_history)].type
                    = "agent"]_vars
    /\ [][(~TakesUserMessage
                /\ conv'.conversation_history # conv.conversation_history) =>
              /\ AppendsOne(conv.conversation_history, conv'.conversation_history)
              /\ conv'.conversation_history[Len(conv'.conversation_history)].type
                    = "agent"]_vars
    /\ [](UserTurn /\ ~NotFound =>
            LET added == SubSeq(RoutedHistory, Len(pre.conversation_history) + 1,
                                Len(RoutedHistory))
            IN  /\ SubSeq(RoutedHistory, 1, Len(pre.conversation_history))
                      = pre.conversation_history
                /\ added # <<>>
                /\ added[1] = HistoryEntry(user_name, user_message, "user")
                /\ \A i \in 2..Len(added) : added[i].type = "agent")

\* a later turn has added its user entry and an agent entry after the
\* entries of the turn before
C33_Witness ==
    /\ received >= 2
    /\ UserTurn /\ ~NotFound
    /\ Len(pre.conversation_history) >= 2
    /\ Len(RoutedHistory) >= Len(pre.conversation_history) + 2
    /\ RoutedHistory[Len(RoutedHistory)].type = "agent"

\* the turn in hand is suspended at a model call, the stream or a delay
Suspended == pc # "idle"

\* C34: a reset does not touch a turn that is under way.  The step that
\* removes the channel's session from its store leaves the turn where it is,
\* with its session and what it has sent; wherever the turn is suspended its
\* next step can be taken whether or not the session is still stored, and
\* that step sends its event on the channel.
C34_ResetDoesNotCancelTurn ==
    /\ [][ResetStep =>
              /\ pc' = pc /\ sent' = sent /\ turn' = turn
              /\ jury' = jury /\ conv' = conv /\ connected' = connected]_vars
    /\ [](pc = "thank_you_run" => ENABLED ThankYouRunReturns)
    /\ [](pc = "sleep" => ENABLED SleepDone)
    /\ [](pc = "question_run" => ENABLED QuestionRunReturns)
    /\ [](pc = "pace" => ENABLED PaceDone)
    /\ [](pc = "stream" => ENABLED StreamEnds)
    /\ [](pc \in {"idle", "thank_you_run", "sleep", "question_run", "pace",
                  "stream"})
    /\ [][(Suspended /\ sent' # sent) => AppendsOne(sent, sent')]_vars

\* the channel's session was removed while its turn was suspended, and the
\* turn went on to send an agent message and to finish
C34_Witness ==
    /\ request.op = "reset"
    /\ request.held # {}
    /\ request.session_id = ChannelId
    /\ request.during # "idle"
    /\ ~InStore
    /\ TurnDone
    /\ Len(sent) > request.events
    /\ sent[Len(sent)].type = "agent_message"

\* the thank-you call of the turn in hand raised
ThankYouFailed ==
    /\ mode = JuryMode /\ UserTurn
    /\ calls # <<>>
    /\ calls[1].task = "thank_you" /\ calls[1].outcome = "raised"

\* C35: when the thank-you call of a jury turn raises, the turn is over with
\* the error as its only event after the acknowledgment: no question call is
\* made, no question is sent or recorded, and the three counters are what
\* they were when the message arrived.  The following turn therefore starts
\* from the same counters and its question call goes to the persona the
\* failed turn would have asked.
C35_ThankYouFailureKeepsCounters ==
    /\ [](ThankYouFailed =>
            /\ pc = "idle"
            /\ Len(calls) = 1
            /\ Len(sent) = 2 /\ sent[2].type = "error"
            /\ QuestionsSent = <<>>
            /\ Counters(jury) = Counters(pre)
            /\ jury.conversation_history
                  = Append(pre.conversation_history,
                           HistoryEntry(user_name, user_message, "user")))
    /\ [][(TakesUserMessage /\ ThankYouFailed) =>
              /\ Counters(pre') = Counters(pre)
              /\ pc' \in {"thank_you_run", "question_run"}
              /\ pc' = "question_run" =>
                    jury'.current_jury_index
                        = NextJuryIndex(pre.current_jury_index)]_vars
    /\ [](mode = JuryMode =>
            \A i \in 1..Len(calls) :
                calls[i].task = "question" =>
                    calls[i].agent
                        = TemplateName(NextJuryIndex(pre.current_jury_index)))

\* the thank-you call of the turn after the second question raised and the
\* turn ended with the error
C35_Witness ==
    /\ ThankYouFailed /\ TurnDone
    /\ pre.questions_asked = 2
    /\ pre.last_agent_who_asked = TemplateName(2)
    /\ jury.current_jury_index = 2
    /\ sent[2].type = "error"

-----------------------------------------------------------------------------
(* Properties of a session shared by several channels *)

\* the channels whose turn has passed the limit check and has its question
\* still to come
QuestionPending ==
    {c \in Channels : channels[c].pc \in {"thank_you_run", "sleep", "question_run"}}

\* C36: with several channels on one jury session, a turn passes the limit
\* check when its message arrives and counts its question when the question
\* call returns, and the turns of the other channels run in between: the
\* count may pass max_questions, by at most one question for every further
\* channel.  A turn passes the check only below the limit, and every
\* question call that returns adds one to the count, whatever the count has
\* become since the check.
C36_OvershootPerExtraChannel ==
    /\ [](jury.questions_asked <= max_questions + MaxChannels - 1)
    /\ [](jury.questions_asked + Cardinality(QuestionPending)
              <= max_questions + MaxChannels - 1)
    /\ [][\A c \in Channels :
              (channels[c].pc = "idle" /\ channels'[c].pc # "idle") =>
                  IF jury.questions_asked < max_questions
                  THEN c \in QuestionPending'
                  ELSE channels'[c].pc = "final_run"]_vars
    /\ [][\A c \in Channels :
              (channels[c].pc = "question_run" /\ channels'[c].pc = "idle") =>
                  jury'.questions_asked = jury.questions_asked + 1]_vars
    /\ [][jury'.questions_asked # jury.questions_asked =>
              /\ jury'.questions_asked = jury.questions_asked + 1
              /\ \E c \in Channels :
                    /\ channels[c].pc = "question_run"
                    /\ channels'[c].pc = "idle"
                    /\ jury'.last_agent_who_asked = channels[c].agent]_vars

\* a fifth question has been counted
C36_Witness ==
    /\ mode = JuryMode
    /\ jury.questions_asked = max_questions + 1
    /\ Len(AgentEntries(jury.conversation_history)) = max_questions + 1

\* the channels whose conversation-mode turn is under way
InTurn == {c \in Channels : channels[c].pc # "idle"}

\* C37: with several channels on one conversation-mode session, the limit
\* check and the turn count of a message are one step of its handler, with
\* no step of another channel between them: a message is counted exactly
\* when the count is below max_conversation_turns as it arrives, no other
\* step changes the count, and the count never passes max_conversation_turns
\* however the turns of the channels overlap.
C37_TurnLimitHoldsWhenShared ==
    /\ [](conv.conversation_turns <= max_conversation_turns)
    /\ [][\A c \in Channels :
              (channels[c].pc = "idle" /\ received' = received + 1
                    /\ channels'[c] # channels[c]) =>
                  /\ conv.conversation_turns < max_conversation_turns
                  /\ conv'.conversation_turns = conv.conversation_turns + 1]_vars
    /\ [][conv'.conversation_turns # conv.conversation_turns =>
              /\ received' = received + 1
              /\ conv.conversation_turns < max_conversation_turns
              /\ conv'.conversation_turns = conv.conversation_turns + 1]_vars
    /\ [][(received' = received + 1
                /\ conv.conversation_turns >= max_conversation_turns) =>
              (conv'.conversation_turns = conv.conversation_turns
                  /\ channels' = channels)]_vars

\* a message was turned away at the limit while the turns of the other
\* channels were still under way
C37_Witness ==
    /\ mode = EnvironmentMode
    /\ conv.conversation_turns = max_conversation_turns
    /\ received > max_conversation_turns
    /\ Cardinality(InTurn) = MaxChannels - 1
    /\ Len(conv.conversation_history) > max_conversation_turns

\* the question call of the turn in hand returned no message
QuestionEmpty ==
    /\ mode = JuryMode /\ UserTurn
    /\ calls # <<>>
    /\ calls[Len(calls)].task = "question"
    /\ calls[Len(calls)].outcome = "empty"

\* C38: when the question call of a jury turn returns no message, the turn
\* is over without a question and without an error event: nothing is sent
\* for the call and no agent entry is recorded, questions_asked and
\* last_agent_who_asked are what they were when the message arrived, and
\* current_jury_index is the index the turn advanced to.
C38_EmptyQuestionSilent ==
    QuestionEmpty =>
        /\ pc = "idle"
        /\ QuestionsSent = <<>>
        /\ ErrorsSent = <<>>
        /\ Len(sent) = 1 + Len(ThankYousSent)
        /\ jury.questions_asked = pre.questions_asked
        /\ jury.last_agent_who_asked = pre.last_agent_who_asked
        /\ jury.current_jury_index = NextJuryIndex(pre.current_jury_index)
        /\ calls[Len(calls)].agent = TemplateName(jury.current_jury_index)
        /\ jury.conversation_history
              = Append(pre.conversation_history,
                       HistoryEntry(user_name, user_message, "user"))

\* after the thank-you for the first question the second question call
\* returned no message: the turn sent the thank-you only
C38_Witness ==
    /\ QuestionEmpty /\ TurnDone
    /\ pre.questions_asked = 1
    /\ Len(ThankYousSent) = 1
    /\ Len(sent) = 2
    /\ jury.current_jury_index = 2
    /\ jury.last_agent_who_asked = TemplateName(1)

-----------------------------------------------------------------------------
(* Progress of the jury session *)

\* the session still asks questions; it is done for a message once the
\* closing message has answered it
AskingQuestion == jury.questions_asked < max_questions
Done == pre.questions_asked = max_questions /\ TurnDone /\ ClosingsSent # <<>>

\* C39: with one channel on the session and model calls that all come back
\* with a message, every turn ends; each of the first 4 user messages is
\* answered by one question, so questions_asked = 4 after the 4th; the
\* count never goes back; and every later user message is answered by the
\* closing message of the persona who asked last.
C39_TurnsEndAndSessionCloses ==
    /\ (pc # "idle") ~> (pc = "idle")
    /\ [](TurnDone =>
            jury.questions_asked
                = (IF received <= max_questions THEN received ELSE max_questions))
    /\ [][jury'.questions_asked >= jury.questions_asked]_vars
    /\ [][~AskingQuestion => ~AskingQuestion']_vars
    /\ [][(AskingQuestion /\ ~AskingQuestion') =>
              (jury'.questions_asked = max_questions /\ pc' = "idle")]_vars
    /\ \A k \in 1..max_questions :
          (UserTurn /\ received = k) ~>
              (jury.questions_asked = k /\ pc = "idle")
    /\ (UserTurn /\ received = max_questions + 1) ~> Done
    /\ [](UserTurn /\ received > max_questions =>
            /\ pc \in {"final_run", "idle"}
            /\ pc = "idle" =>
                  AgentMessagesSent
                      = <<AgentMessage(jury.last_agent_who_asked, FinalText)>>)

\* the fifth user message has been answered by the closing message
C39_Witness ==
    /\ received = max_questions + 1
    /\ Done
    /\ jury.questions_asked = max_questions
    /\ faults = 0

====
